---- MODULE Spec2Model ----
(***************************************************************************)
(* Model of the conversation-state layer of the Sandol Kakao bot service:  *)
(* the context codec (extract_menu / save_menu, src/app/utils/meal.py),    *)
(* the account gate (sync_required, src/app/utils/user.py), the venue      *)
(* selection dependency (select_restaurant), the menu flow handlers        *)
(* (src/app/routers/meal.py), the identity resolvers (get_and_update_user, *)
(* get_or_create_user) run by concurrent requests, the composition of     *)
(* the replies of the read-only routes, the upstream client's identity     *)
(* header, the top-level exception handler and the notice search by        *)
(* author.                                                                 *)
(*                                                                         *)
(* Text is modelled as a sequence of one-character strings so that the     *)
(* JSON encoding of a menu list is a real conversion and not the identity. *)
(***************************************************************************)
EXTENDS Integers, Sequences, FiniteSets, TLC

(***************************************************************************)
(* Bounds of the model.                                                    *)
(***************************************************************************)
MaxCtx == 2
MaxMenuLen == 2

(***************************************************************************)
(* Program constants.                                                      *)
(***************************************************************************)
DefaultLifespan == 5
DefaultTtl == 300

(***************************************************************************)
(* Generic sequence helpers.                                               *)
(***************************************************************************)
RemoveAt(s, i) == SubSeq(s, 1, i - 1) \o SubSeq(s, i + 1, Len(s))

SeqsUpTo(S, n) == UNION {[1..k -> S] : k \in 0..n}

Range(s) == {s[i] : i \in 1..Len(s)}

(***************************************************************************)
(* Menu item strings.  The alphabet holds the characters JSON treats       *)
(* specially (quote, backslash, comma) next to an ordinary letter.         *)
(***************************************************************************)
QUOTE == "\""
BSLASH == "\\"

Items == { <<"a">>, <<QUOTE, ",">>, <<BSLASH>> }

Menus == SeqsUpTo(Items, MaxMenuLen)

(***************************************************************************)
(* json.dumps(menu_list, ensure_ascii=False) for a list of strings:        *)
(* '[' , the items quoted and escaped, joined by ', ' , ']'.               *)
(***************************************************************************)
RECURSIVE json_escape(_)
json_escape(s) ==
    IF s = <<>> THEN <<>>
    ELSE (IF Head(s) = QUOTE \/ Head(s) = BSLASH
            THEN <<BSLASH, Head(s)>>
            ELSE <<Head(s)>>) \o json_escape(Tail(s))

json_quote(s) == <<QUOTE>> \o json_escape(s) \o <<QUOTE>>

RECURSIVE json_join(_)
json_join(l) ==
    IF l = <<>> THEN <<>>
    ELSE IF Len(l) = 1 THEN json_quote(l[1])
    ELSE json_quote(l[1]) \o <<",", " ">> \o json_join(Tail(l))

json_dumps(l) == <<"[">> \o json_join(l) \o <<"]">>

(***************************************************************************)
(* json.loads restricted to what the codec stores: a JSON array of         *)
(* strings.  The result is [raised, value]; raised = TRUE stands for       *)
(* json.JSONDecodeError.                                                   *)
(***************************************************************************)
JsonError == [raised |-> TRUE, value |-> <<>>]

RECURSIVE SkipWs(_, _)
SkipWs(s, i) == IF i <= Len(s) /\ s[i] = " " THEN SkipWs(s, i + 1) ELSE i

\* Scans the body of a JSON string from index i (just after the opening
\* quote); returns the decoded text and the index after the closing quote.
RECURSIVE ParseStr(_, _, _)
ParseStr(s, i, acc) ==
    IF i > Len(s) THEN [ok |-> FALSE, val |-> <<>>, next |-> i]
    ELSE IF s[i] = QUOTE THEN [ok |-> TRUE, val |-> acc, next |-> i + 1]
    ELSE IF s[i] = BSLASH
         THEN IF i + 1 <= Len(s) /\ s[i + 1] \in {QUOTE, BSLASH}
                THEN ParseStr(s, i + 2, Append(acc, s[i + 1]))
                ELSE [ok |-> FALSE, val |-> <<>>, next |-> i]
    ELSE ParseStr(s, i + 1, Append(acc, s[i]))

\* Expects a string at index i, then ',' or ']'.
RECURSIVE ParseItems(_, _, _)
ParseItems(s, i, acc) ==
    LET j == SkipWs(s, i) IN
    IF j > Len(s) \/ s[j] # QUOTE THEN JsonError
    ELSE LET r == ParseStr(s, j + 1, <<>>) IN
         IF ~r.ok THEN JsonError
         ELSE LET k == SkipWs(s, r.next) IN
              IF k > Len(s) THEN JsonError
              ELSE IF s[k] = "]"
                   THEN IF SkipWs(s, k + 1) > Len(s)
                          THEN [raised |-> FALSE, value |-> Append(acc, r.val)]
                          ELSE JsonError
              ELSE IF s[k] = ","
                   THEN ParseItems(s, k + 1, Append(acc, r.val))
              ELSE JsonError

json_loads(s) ==
    LET i == SkipWs(s, 1) IN
    IF i > Len(s) \/ s[i] # "[" THEN JsonError
    ELSE LET j == SkipWs(s, i + 1) IN
         IF j <= Len(s) /\ s[j] = "]"
           THEN IF SkipWs(s, j + 1) > Len(s)
                  THEN [raised |-> FALSE, value |-> <<>>]
                  ELSE JsonError
           ELSE ParseItems(s, j, <<>>)

(***************************************************************************)
(* Contexts (kakao_chatbot.context.Context): a name, the two parameters    *)
(* the codec uses, lifespan and ttl.  A parameter is [present, value].     *)
(***************************************************************************)
ContextNames == {"lunch_menu", "dinner_menu"}

RestaurantNames == {"R1", "R2"}

\* A text-valued parameter (menu_list) and a name-valued one (restaurant_name).
NoParam == [present |-> FALSE, value |-> <<>>]

Param(v) == [present |-> TRUE, value |-> v]

NoGuard == [present |-> FALSE, value |-> ""]

MkContext(name, ml, rn, lifespan, ttl) ==
    [name |-> name, menu_list |-> ml, restaurant_name |-> rn,
     lifespan |-> lifespan, ttl |-> ttl]

\* next((ctx for ctx in contexts if ctx.name == meal_type_name), None):
\* the index of the first context with the name, 0 for None.
FirstNamed(contexts, meal_type_name) ==
    IF \E i \in 1..Len(contexts) : contexts[i].name = meal_type_name
      THEN CHOOSE i \in 1..Len(contexts) :
             /\ contexts[i].name = meal_type_name
             /\ \A j \in 1..(i - 1) : contexts[j].name # meal_type_name
      ELSE 0

\* The condition without the comparison of the stored venue name.
GuardMatches_NoCompare(ctx, restaurant_name) ==
    /\ ctx.menu_list.present
    /\ ctx.restaurant_name.present

\* Whether extract_menu's condition admits the context.
GuardMatches(ctx, restaurant_name) ==
    /\ ctx.menu_list.present
    /\ ctx.restaurant_name.present
    /\ ctx.restaurant_name.value = restaurant_name

extract_menu(contexts, meal_type_name, restaurant_name) ==
    LET i == FirstNamed(contexts, meal_type_name) IN
    IF i # 0 /\ GuardMatches(contexts[i], restaurant_name)
      THEN json_loads(contexts[i].menu_list.value)
      ELSE [raised |-> FALSE, value |-> <<>>]

save_menu(contexts, meal_type_name, restaurant_name, menu_list, lifspan, ttl) ==
    LET i == FirstNamed(contexts, meal_type_name) IN
    IF i # 0
      THEN RemoveAt(contexts, i) \o
           << MkContext(meal_type_name,
                        Param(json_dumps(menu_list)),
                        Param(restaurant_name),
                        lifspan, ttl) >>
      ELSE contexts

(***************************************************************************)
(* Local user store (src/app/models/user.py): records with an              *)
(* autoincrement id and three unique identifier columns.  NULL is the      *)
(* database null (Python None); "" is the empty string.                    *)
(***************************************************************************)
NULL == "<null>"

Truthy(v) == v # NULL /\ v # ""

MkUser(id, kakao_id, pk, au) ==
    [id |-> id, kakao_id |-> kakao_id, plusfriend_user_key |-> pk,
     app_user_id |-> au]

\* The constraints with kakao_id left out of them.
UniqueOk_NoKakao(store) ==
    \A u, v \in store :
        u # v =>
          /\ u.id # v.id
          /\ (u.plusfriend_user_key # NULL
                => u.plusfriend_user_key # v.plusfriend_user_key)
          /\ (u.app_user_id # NULL => u.app_user_id # v.app_user_id)

\* The unique constraints of the User table (a null never collides).
UniqueOk(store) ==
    \A u, v \in store :
        u # v =>
          /\ u.id # v.id
          /\ u.kakao_id # v.kakao_id
          /\ (u.plusfriend_user_key # NULL
                => u.plusfriend_user_key # v.plusfriend_user_key)
          /\ (u.app_user_id # NULL => u.app_user_id # v.app_user_id)

NextId(store) ==
    IF store = {} THEN 1
    ELSE (CHOOSE m \in {u.id : u \in store} :
            \A u \in store : u.id <= m) + 1

\* select(User).where(column == value) ... scalar_one_or_none(); 0 is None.
FindBy(store, column, value) ==
    IF \E u \in store : u[column] = value
      THEN (CHOOSE u \in store : u[column] = value).id
      ELSE 0

search_user(kakao_id, store, plusfriend_user_key, app_user_id) ==
    LET byPk == IF Truthy(plusfriend_user_key)
                  THEN FindBy(store, "plusfriend_user_key", plusfriend_user_key)
                  ELSE 0
        byAu == IF byPk = 0 /\ Truthy(app_user_id)
                  THEN FindBy(store, "app_user_id", app_user_id)
                  ELSE byPk
    IN  IF byAu = 0 THEN FindBy(store, "kakao_id", kakao_id) ELSE byAu

UserById(store, id) == CHOOSE u \in store : u.id = id

\* Result of a store operation: raised = TRUE is sqlalchemy's IntegrityError
\* at commit; the store is then left as it was.
update_user_ids(id, store, kakao_id, plusfriend_user_key, app_user_id) ==
    LET user == UserById(store, id)
        changed ==
            [user EXCEPT
               !.kakao_id = kakao_id,
               !.plusfriend_user_key =
                   IF Truthy(plusfriend_user_key) THEN plusfriend_user_key ELSE @,
               !.app_user_id =
                   IF Truthy(app_user_id) THEN app_user_id ELSE @]
        after == (store \ {user}) \cup {changed}
    IN  IF \/ user.kakao_id # kakao_id
           \/ user.plusfriend_user_key # plusfriend_user_key
           \/ user.app_user_id # app_user_id
          THEN IF UniqueOk(after)
                 THEN [raised |-> FALSE, store |-> after, id |-> id]
                 ELSE [raised |-> TRUE, store |-> store, id |-> 0]
          ELSE [raised |-> FALSE, store |-> store, id |-> id]

get_and_update_user(kakao_id, store, plusfriend_user_key, app_user_id) ==
    LET found == search_user(kakao_id, store, plusfriend_user_key, app_user_id)
        pk == IF found = 0 /\ plusfriend_user_key = "" THEN NULL
                ELSE plusfriend_user_key
        au == IF found = 0 /\ app_user_id = "" THEN NULL ELSE app_user_id
        created == store \cup {MkUser(NextId(store), kakao_id, pk, au)}
    IN  IF found # 0
          THEN update_user_ids(found, store, kakao_id, pk, au)
          ELSE IF UniqueOk(created)
                 THEN update_user_ids(NextId(store), created, kakao_id, pk, au)
                 ELSE [raised |-> TRUE, store |-> store, id |-> 0]

\* update_user_ids on the object a session loaded earlier: the comparison
\* and the changed columns are decided on the loaded values, the UPDATE is
\* applied to the row as it is now, and refresh returns the row.  Without a
\* difference nothing is written and the loaded object is returned.
update_loaded(loaded, store, kakao_id, plusfriend_user_key, app_user_id) ==
    LET row == UserById(store, loaded.id)
        changed ==
            [row EXCEPT
               !.kakao_id = IF loaded.kakao_id # kakao_id THEN kakao_id ELSE @,
               !.plusfriend_user_key =
                   IF Truthy(plusfriend_user_key)
                      /\ loaded.plusfriend_user_key # plusfriend_user_key
                     THEN plusfriend_user_key ELSE @,
               !.app_user_id =
                   IF Truthy(app_user_id) /\ loaded.app_user_id # app_user_id
                     THEN app_user_id ELSE @]
        after == (store \ {row}) \cup {changed}
    IN  IF \/ loaded.kakao_id # kakao_id
           \/ loaded.plusfriend_user_key # plusfriend_user_key
           \/ loaded.app_user_id # app_user_id
          THEN IF UniqueOk(after)
                 THEN [raised |-> FALSE, store |-> after, user |-> changed]
                 ELSE [raised |-> TRUE, store |-> store, user |-> loaded]
          ELSE [raised |-> FALSE, store |-> store, user |-> loaded]

\* db.add(user); commit; refresh: the row gets the next id, or the commit
\* raises IntegrityError and nothing is stored.
insert_user(store, kakao_id, plusfriend_user_key, app_user_id) ==
    LET user == MkUser(NextId(store), kakao_id, plusfriend_user_key,
                       app_user_id)
    IN  IF UniqueOk(store \cup {user})
          THEN [raised |-> FALSE, store |-> store \cup {user}, user |-> user]
          ELSE [raised |-> TRUE, store |-> store, user |-> user]

\* get_and_update_user, lines 141-145: "" becomes None before the insert.
EmptyToNone(v) == IF v = "" THEN NULL ELSE v

\* The lookup of db.get_or_create_user (its own copy of the three selects).
get_or_create_user_lookup(kakao_id, store, plusfriend_user_key, app_user_id) ==
    LET byPk == IF Truthy(plusfriend_user_key)
                  THEN FindBy(store, "plusfriend_user_key", plusfriend_user_key)
                  ELSE 0
        byAu == IF byPk = 0 /\ Truthy(app_user_id)
                  THEN FindBy(store, "app_user_id", app_user_id)
                  ELSE byPk
    IN  IF byAu = 0 THEN FindBy(store, "kakao_id", kakao_id) ELSE byAu

\* db.get_or_create_user run without interruption: the found row as it is,
\* or a new row with the inbound values as they came.
get_or_create_user(kakao_id, store, plusfriend_user_key, app_user_id) ==
    LET found == get_or_create_user_lookup(kakao_id, store,
                                           plusfriend_user_key, app_user_id)
    IN  IF found # 0
          THEN [raised |-> FALSE, store |-> store,
                user |-> UserById(store, found)]
          ELSE insert_user(store, kakao_id, plusfriend_user_key, app_user_id)

(***************************************************************************)
(* Venues (RestaurantResponse: name and id) and the venue selection        *)
(* dependency.  The result is either a venue or the JSONResponse holding   *)
(* the selection prompt.                                                   *)
(***************************************************************************)
Venue(n) == [name |-> n, id |-> IF n = "R1" THEN 1 ELSE 2]

VenueLists == { <<>>, <<Venue("R1")>>, <<Venue("R1"), Venue("R2")>> }

\* The prompt with one quick reply per venue name, not per venue.
SelectPrompt_Deduped(restaurants, block_id) ==
    [kind |-> "response", name |-> "", id |-> 0,
     quick_replies |->
        LET firsts == SelectSeq([i \in 1..Len(restaurants) |-> i],
                        LAMBDA i : \A j \in 1..(i - 1) :
                                      restaurants[j].name # restaurants[i].name)
        IN  [n \in 1..Len(firsts) |->
                [label |-> restaurants[firsts[n]].name, block_id |-> block_id,
                 extra |-> restaurants[firsts[n]].name]]]

SelectPrompt(restaurants, block_id) ==
    [kind |-> "response", name |-> "", id |-> 0,
     quick_replies |->
        [i \in 1..Len(restaurants) |->
            [label |-> restaurants[i].name, block_id |-> block_id,
             extra |-> restaurants[i].name]]]

Selected(r) ==
    [kind |-> "restaurant", name |-> r.name, id |-> r.id,
     quick_replies |-> <<>>]

\* select_restaurant taking a named venue at its word.
select_restaurant_Trusting(restaurant_name, restaurants, block_id) ==
    IF restaurant_name # ""
      THEN Selected([name |-> restaurant_name, id |-> 1])
      ELSE IF Len(restaurants) = 1 THEN Selected(restaurants[1])
      ELSE SelectPrompt(restaurants, block_id)

select_restaurant(restaurant_name, restaurants, block_id) ==
    IF restaurant_name # ""
         /\ \E i \in 1..Len(restaurants) : restaurants[i].name = restaurant_name
      THEN Selected(restaurants[
             CHOOSE i \in 1..Len(restaurants) :
               /\ restaurants[i].name = restaurant_name
               /\ \A j \in 1..(i - 1) : restaurants[j].name # restaurant_name])
      ELSE IF Len(restaurants) = 1 THEN Selected(restaurants[1])
      ELSE SelectPrompt(restaurants, block_id)

(***************************************************************************)
(* sync_required: the wrapper around every mutating handler.  kwargs is    *)
(* the set of keyword names the caller passes.  The outcome is the         *)
(* exception raised, the sync prompt, or "call" when the handler runs.     *)
(***************************************************************************)
\* `if not user`: true only for None (id 0 here); a User row is truthy.
UserIsNone(resolved) == resolved.id = 0

\* wrapper(*args, **kwargs) as the route calls it: keyword arguments only.
\* params are the parameters func declares; func(*args, payload=payload,
\* user=user, **kwargs) is a TypeError when kwargs repeats payload or user or
\* holds a name func does not declare.
sync_required(kwargs, params, resolved) ==
    IF "request" \notin kwargs THEN "RuntimeError"
    ELSE IF resolved.raised THEN "IntegrityError"
    ELSE IF UserIsNone(resolved) THEN "sync_prompt"
    ELSE IF "payload" \in kwargs \/ "user" \in kwargs
            \/ ~(kwargs \subseteq params) THEN "TypeError"
    ELSE "call"

(***************************************************************************)
(* Replies.  kind names the reply's text or card; exc is the exception     *)
(* type handed to http_exception_handler; hasContexts tells whether the    *)
(* reply carries a context list (response.contexts was assigned).          *)
(***************************************************************************)
NoReply ==
    [kind |-> "none", exc |-> "", errors |-> <<>>, hasContexts |-> FALSE,
     contexts |-> <<>>, lunch |-> <<>>, dinner |-> <<>>]

TextReply(kind) == [NoReply EXCEPT !.kind = kind]

\* main.http_exception_handler for an exception that is no KakaoError.
http_exception_handler(exc) ==
    [NoReply EXCEPT !.kind = "server_error", !.exc = exc]

SyncPrompt == TextReply("sync_prompt")

\* The keyword parameters the two callees accept.
save_menu_params ==
    {"contexts", "meal_type_name", "restaurant_name", "menu_list", "lifspan",
     "ttl"}

meal_response_maker_params == {"lunch", "dinner"}

\* Re-reads both slots for the preview cards and attaches the contexts.
Preview(kind, contexts, restaurant) ==
    LET lunch_menu == extract_menu(contexts, "lunch_menu", restaurant.name)
        dinner_menu == extract_menu(contexts, "dinner_menu", restaurant.name)
    IN  IF lunch_menu.raised \/ dinner_menu.raised
          THEN http_exception_handler("JSONDecodeError")
          ELSE [NoReply EXCEPT !.kind = kind, !.hasContexts = TRUE,
                               !.contexts = contexts,
                               !.lunch = lunch_menu.value,
                               !.dinner = dinner_menu.value]

(***************************************************************************)
(* Handler bodies.  Each yields [reply, payload_contexts]: the reply of    *)
(* the turn and payload.contexts as the handler leaves it (the handlers    *)
(* work on a deepcopy, so save_menu never touches the payload's list).     *)
(***************************************************************************)
Outcome(reply, payload_contexts) ==
    [reply |-> reply, payload_contexts |-> payload_contexts]

\* list.remove(x): drops the first occurrence.
RECURSIVE RemoveFirst(_, _)
RemoveFirst(l, x) ==
    IF l = <<>> THEN <<>>
    ELSE IF Head(l) = x THEN Tail(l)
    ELSE <<Head(l)>> \o RemoveFirst(Tail(l), x)

meal_register(meal_type, has_menu, menu_list, contexts, restaurant) ==
    IF ~has_menu THEN Outcome(TextReply("menu_required"), contexts)
    ELSE IF meal_type \in {"lunch", "dinner"}
      THEN IF restaurant.kind # "restaurant"
             THEN Outcome(http_exception_handler("AttributeError"), contexts)
           ELSE IF "add_mode" \notin save_menu_params
             THEN Outcome(http_exception_handler("TypeError"), contexts)
           ELSE Outcome(Preview("preview",
                            save_menu(contexts, meal_type \o "_menu",
                                      restaurant.name, menu_list,
                                      DefaultLifespan, DefaultTtl),
                            restaurant), contexts)
      ELSE Outcome(TextReply("check_meal_type"), contexts)

meal_delete_all(contexts, restaurant) ==
    IF restaurant.kind # "restaurant"
      THEN Outcome(http_exception_handler("AttributeError"), contexts)
    ELSE LET c1 == save_menu(contexts, "lunch_menu", restaurant.name, <<>>, 0, 0)
             c2 == save_menu(c1, "dinner_menu", restaurant.name, <<>>, 0, 0)
         IN  IF "is_temp" \notin meal_response_maker_params
               THEN Outcome(http_exception_handler("TypeError"), contexts)
               ELSE Outcome([NoReply EXCEPT !.kind = "deleted_all",
                                            !.hasContexts = TRUE,
                                            !.contexts = c2], contexts)

meal_menu_delete(meal_type, menu, contexts, restaurant) ==
    IF meal_type = "" \/ menu = <<>>
      THEN Outcome(TextReply("delete_required"), contexts)
    ELSE IF restaurant.kind # "restaurant"
      THEN Outcome(http_exception_handler("AttributeError"), contexts)
    ELSE LET name == meal_type \o "_menu"
             menu_list == extract_menu(contexts, name, restaurant.name)
         IN  IF menu_list.raised
               THEN Outcome(http_exception_handler("JSONDecodeError"), contexts)
             ELSE IF menu \notin Range(menu_list.value)
               THEN Outcome(TextReply("not_registered"), contexts)
             ELSE Outcome(Preview("preview",
                              save_menu(contexts, name, restaurant.name,
                                        RemoveFirst(menu_list.value, menu),
                                        DefaultLifespan, DefaultTtl),
                              restaurant), contexts)

(***************************************************************************)
(* Confirm (meal_submit) and the upstream meal registry.                   *)
(***************************************************************************)
MealSlots == <<"lunch", "dinner">>

RestaurantIds == {1, 2}

NoMeal == [present |-> FALSE, menu |-> <<>>]

\* What one POST /api/meals/{restaurant_id} can come to:
\*   created        201, the meal is stored, post_meal returns True
\*   not_created    another 2xx, post_meal returns False
\*   http_error     4xx/5xx, raise_for_status raises HTTPStatusError
\*   transport_error            the request never reached the registry
\*   transport_error_committed  the answer was lost after the meal was stored
PostOutcomes ==
    {"created", "not_created", "http_error", "transport_error",
     "transport_error_committed"}

IsException(result) ==
    result \in {"http_error", "transport_error", "transport_error_committed"}

post_meal(meal_type, menu, restaurant_id, registry, outcome) ==
    [result |-> outcome,
     registry |->
        IF outcome \in {"created", "transport_error_committed"}
          THEN [registry EXCEPT ![restaurant_id][meal_type] =
                                    [present |-> TRUE, menu |-> menu]]
          ELSE registry]

\* The start of meal_submit up to the gather: the two menus to post.
meal_submit_extract(contexts, restaurant) ==
    IF restaurant.kind # "restaurant"
      THEN [exc |-> "AttributeError", lunch |-> <<>>, dinner |-> <<>>]
    ELSE LET lunch_menu == extract_menu(contexts, "lunch_menu", restaurant.name)
             dinner_menu == extract_menu(contexts, "dinner_menu", restaurant.name)
         IN  IF lunch_menu.raised \/ dinner_menu.raised
               THEN [exc |-> "JSONDecodeError", lunch |-> <<>>, dinner |-> <<>>]
               ELSE [exc |-> "", lunch |-> lunch_menu.value,
                     dinner |-> dinner_menu.value]

ErrorOf(results, i) ==
    IF IsException(results[i])
      THEN << [slot |-> MealSlots[i],
               kind |-> IF results[i] = "http_error" THEN "status_code"
                        ELSE "unknown"] >>
      ELSE <<>>

CollectErrors(results) == ErrorOf(results, 1) \o ErrorOf(results, 2)

\* fetch_latest_meals(client, restaurant.id): the registry's answer, or an
\* HTTP failure of the GET.
fetch_latest_meals(registry, restaurant_id, fetch_ok) ==
    [raised |-> ~fetch_ok, meals |-> registry[restaurant_id]]

\* meal_submit after the gather.
meal_submit_reply(results, contexts, restaurant, latest) ==
    LET errors == CollectErrors(results) IN
    IF errors # <<>>
      THEN [NoReply EXCEPT !.kind = "submit_failed", !.errors = errors]
    ELSE IF latest.raised THEN http_exception_handler("HTTPStatusError")
    ELSE IF ~latest.meals["lunch"].present \/ ~latest.meals["dinner"].present
      THEN http_exception_handler("IndexError")
    ELSE LET c1 == save_menu(contexts, "lunch_menu", restaurant.name, <<>>, 0, 0)
             c2 == save_menu(c1, "dinner_menu", restaurant.name, <<>>, 0, 0)
         IN  [NoReply EXCEPT !.kind = "submit_ok", !.hasContexts = TRUE,
                             !.contexts = c2,
                             !.lunch = latest.meals["lunch"].menu,
                             !.dinner = latest.meals["dinner"].menu]

(***************************************************************************)
(* The chat platform keeps the contexts between turns: a reply that        *)
(* carries contexts replaces the held ones, and a context written with     *)
(* lifespan 0 is dropped.                                                  *)
(***************************************************************************)
RECURSIVE Live(_)
Live(contexts) ==
    IF contexts = <<>> THEN <<>>
    ELSE (IF Head(contexts).lifespan > 0 THEN <<Head(contexts)>> ELSE <<>>)
         \o Live(Tail(contexts))

PlatformApply(held_contexts, r) ==
    IF r.hasContexts THEN Live(r.contexts) ELSE held_contexts

(***************************************************************************)
(* State.                                                                  *)
(*   held       contexts the platform holds for the session                *)
(*   payloadCtx payload.contexts of the turn being handled                 *)
(*   users      the local user table                                       *)
(*   upstream   the meal registry: restaurant id -> slot -> committed meal *)
(*   pc         "idle", "body" (the handler body is entered), "posting"     *)
(*              (confirm's two posts in flight),                           *)
(*              "replied"; "off" outside the flow specification            *)
(*   req        the request of the turn and what the gate decided          *)
(*   posts      the two post_meal tasks of a confirm                       *)
(*   reply      the reply of the turn                                      *)
(*   turn       number of finished turns                                   *)
(*   cPhase, cContexts, cProbe : the codec exercised as a pure function    *)
(*              (specification SpecCodec)                                  *)
(*   calls      the identity resolutions in progress, one per request      *)
(*              (specification SpecUsers)                                  *)
(*   view       the reply composed by a composer or a read-only route      *)
(*              (specification SpecCompose)                                *)
(***************************************************************************)
VARIABLES held, payloadCtx, users, upstream, pc, req, posts, reply, turn,
          cPhase, cContexts, cProbe, calls, view

flowVars == <<held, payloadCtx, users, upstream, pc, req, posts, reply, turn>>

codecVars == <<cPhase, cContexts, cProbe>>

userVars == <<calls>>

composeVars == <<view>>

vars == <<held, payloadCtx, users, upstream, pc, req, posts, reply, turn,
          cPhase, cContexts, cProbe, calls, view>>

NoReq ==
    [action |-> "none", meal_type |-> "", kwargs |-> {}, extra |-> "",
     has_menu |-> FALSE, menu |-> <<>>,
     restaurant |-> SelectPrompt(<<>>, ""), gate |-> "", unsynced |-> FALSE]

NoPost == [status |-> "none", menu |-> <<>>]

NoPosts == [m \in {"lunch", "dinner"} |-> NoPost]

EmptyRegistry == [r \in RestaurantIds |-> [m \in {"lunch", "dinner"} |-> NoMeal]]

MaxProcs == 2

Procs == 1..MaxProcs

NoUser == MkUser(0, "", NULL, NULL)

\* A resolution not started.  fn is the function called; hits holds what
\* each select returned (an id, 0 for None, -1 while it has not run); user is
\* the object the session holds; exc the exception the call ended with.
NoHits == [plusfriend_user_key |-> -1, app_user_id |-> -1, kakao_id |-> -1]

NoCall ==
    [fn |-> "", kakao_id |-> "", plusfriend_user_key |-> NULL,
     app_user_id |-> NULL, pc |-> "idle", hits |-> NoHits,
     user |-> NoUser, exc |-> ""]

NoCalls == [p \in Procs |-> NoCall]

\* No reply composed yet.  fn is the composer or route called, items and
\* more its source lists, out the component list of the reply, raised the
\* exception it ended with.
NoView ==
    [fn |-> "", items |-> <<>>, more |-> <<>>, flag |-> "", raised |-> "",
     out |-> <<>>, quick_replies |-> <<>>]

\* The flow variables while only the codec is exercised.
FlowOff ==
    /\ held = <<>>
    /\ payloadCtx = <<>>
    /\ users = {}
    /\ upstream = EmptyRegistry
    /\ pc = "off"
    /\ req = NoReq
    /\ posts = NoPosts
    /\ reply = NoReply
    /\ turn = 0

(***************************************************************************)
(* Context lists the platform can hand to the codec: per name a context    *)
(* with no parameter, with one of the two, with both (for either venue,    *)
(* live or with lifespan 0), or with a menu_list that is not JSON.         *)
(***************************************************************************)
StoredMenu == << <<"a">>, <<QUOTE, ",">> >>

CorruptJson == <<"[", QUOTE, "a">>

CodecContexts ==
    UNION { { MkContext(n, NoParam, NoGuard, DefaultLifespan, DefaultTtl),
              MkContext(n, Param(json_dumps(StoredMenu)), NoGuard,
                        DefaultLifespan, DefaultTtl),
              MkContext(n, NoParam, Param("R1"), DefaultLifespan, DefaultTtl),
              MkContext(n, Param(CorruptJson), Param("R1"),
                        DefaultLifespan, DefaultTtl) }
            \cup { MkContext(n, Param(json_dumps(StoredMenu)), Param(r), l,
                             IF l = 0 THEN 0 ELSE DefaultTtl)
                     : r \in RestaurantNames, l \in {0, DefaultLifespan} }
          : n \in ContextNames }

NoProbe ==
    [op |-> "none", name |-> "", guard |-> "", items |-> <<>>, lifespan |-> 0,
     existed |-> FALSE, before |-> <<>>,
     got |-> [raised |-> FALSE, value |-> <<>>]]

CodecInit ==
    /\ FlowOff
    /\ cPhase = "input"
    /\ cContexts \in SeqsUpTo(CodecContexts, MaxCtx)
    /\ cProbe = NoProbe
    /\ calls = NoCalls
    /\ view = NoView

\* save_menu on the list, then extract_menu on its result in the same turn.
CodecSave(name, guard, items, lifespan) ==
    /\ cPhase = "input"
    /\ cPhase' = "done"
    /\ cContexts' = save_menu(cContexts, name, guard, items, lifespan,
                              IF lifespan = 0 THEN 0 ELSE DefaultTtl)
    /\ cProbe' = [op |-> "save", name |-> name, guard |-> guard,
                  items |-> items, lifespan |-> lifespan,
                  existed |-> FirstNamed(cContexts, name) # 0,
                  before |-> cContexts,
                  got |-> extract_menu(cContexts', name, guard)]
    /\ UNCHANGED <<flowVars, userVars, composeVars>>

\* extract_menu on the list as the platform handed it over.
CodecExtract(name, guard) ==
    /\ cPhase = "input"
    /\ cPhase' = "done"
    /\ cContexts' = cContexts
    /\ cProbe' = [op |-> "extract", name |-> name, guard |-> guard,
                  items |-> <<>>, lifespan |-> 0,
                  existed |-> FirstNamed(cContexts, name) # 0,
                  before |-> cContexts,
                  got |-> extract_menu(cContexts, name, guard)]
    /\ UNCHANGED <<flowVars, userVars, composeVars>>

CodecNext ==
    \/ \E n \in ContextNames, g \in RestaurantNames, m \in Menus,
          l \in {0, DefaultLifespan} : CodecSave(n, g, m, l)
    \/ \E n \in ContextNames, g \in RestaurantNames : CodecExtract(n, g)

SpecCodec == CodecInit /\ [][CodecNext]_vars

(***************************************************************************)
(* The menu flow: one webhook request per turn.                            *)
(***************************************************************************)
MaxTurns == 1

I_a == <<"a">>
I_q == <<QUOTE, ",">>
I_b == <<BSLASH>>

\* Contexts the platform may hold when a turn starts: declared by the block
\* without parameters, or pending for either venue as save_menu wrote them.
FlowContexts(n) ==
    { MkContext(n, NoParam, NoGuard, DefaultLifespan, DefaultTtl),
      MkContext(n, Param(json_dumps(<<I_a>>)), Param("R1"),
                DefaultLifespan, DefaultTtl),
      MkContext(n, Param(json_dumps(<<I_a, I_q, I_a>>)), Param("R1"),
                DefaultLifespan, DefaultTtl),
      MkContext(n, Param(json_dumps(<<I_a>>)), Param("R2"),
                DefaultLifespan, DefaultTtl) }

\* The platform keeps one context per name.
FlowHeld ==
    {<<>>}
    \cup { <<c>> : c \in FlowContexts("lunch_menu") \cup FlowContexts("dinner_menu") }
    \cup { <<c, d>> : c \in FlowContexts("lunch_menu"),
                      d \in FlowContexts("dinner_menu") }

FlowStores == { {}, {MkUser(1, "k1", "p1", NULL)} }

\* The parameters each handler declares.
HandlerParams(act) ==
    CASE act = "register" -> {"meal_type", "payload", "user", "restaurant"}
      [] act = "delete" -> {"payload", "user", "restaurant"}
      [] act = "delete_all" -> {"payload", "user", "restaurant"}
      [] act = "confirm" -> {"payload", "client", "user", "restaurant"}

\* The route is registered on the wrapper, whose signature is the handler's
\* (functools.wraps): it is called with one keyword per declared parameter.
RouteKwargs(act) == HandlerParams(act)

LastBlock == "block"

FlowInit ==
    /\ held \in FlowHeld
    /\ payloadCtx = <<>>
    /\ users \in FlowStores
    /\ upstream = EmptyRegistry
    /\ pc = "idle"
    /\ req = NoReq
    /\ posts = NoPosts
    /\ reply = NoReply
    /\ turn = 0
    /\ cPhase = "off"
    /\ cContexts = <<>>
    /\ cProbe = NoProbe
    /\ calls = NoCalls
    /\ view = NoView

\* Whether the user's secondary identifiers are not linked when the turn
\* starts: no record yet, or a record without either secondary key.
NotSynced(store, kakao_id, pk) ==
    LET found == search_user(kakao_id, store, pk, NULL) IN
    \/ found = 0
    \/ /\ UserById(store, found).plusfriend_user_key = NULL
       /\ UserById(store, found).app_user_id = NULL

\* The request of a turn once its dependencies are resolved.
Request(act, gate, venues, extra, meal_type, has_menu, menu, unsynced) ==
    [action |-> act, meal_type |-> meal_type, kwargs |-> RouteKwargs(act),
     extra |-> extra, has_menu |-> has_menu, menu |-> menu,
     restaurant |-> select_restaurant(extra, venues, LastBlock),
     gate |-> gate, unsynced |-> unsynced]

GateReply(gate) ==
    IF gate = "sync_prompt" THEN SyncPrompt ELSE http_exception_handler(gate)

\* A webhook request reaches a route of a mutating action: the dependencies
\* are resolved and the wrapper is called.  The body runs only if the
\* wrapper calls it.
Dispatch(act, venues, extra, pk, meal_type, has_menu, menu) ==
    LET kw == RouteKwargs(act)
        resolved == get_and_update_user("k1", users, pk, NULL)
        gate == sync_required(kw, HandlerParams(act), resolved)
    IN  /\ pc = "idle"
        /\ turn < MaxTurns
        /\ users' = IF "request" \in kw THEN resolved.store ELSE users
        /\ req' = Request(act, gate, venues, extra, meal_type, has_menu, menu,
                          NotSynced(users, "k1", pk))
        /\ payloadCtx' = held
        /\ pc' = IF gate = "call" THEN "body" ELSE "replied"
        /\ reply' = IF gate = "call" THEN NoReply ELSE GateReply(gate)
        /\ UNCHANGED <<held, upstream, posts, turn, codecVars, userVars, composeVars>>

Register(venues, extra, pk, meal_type, has_menu, menu_list) ==
    Dispatch("register", venues, extra, pk, meal_type, has_menu, menu_list)

DeleteAll(venues, extra, pk) ==
    Dispatch("delete_all", venues, extra, pk, "", FALSE, <<>>)

MenuDelete(venues, extra, pk, meal_type, menu) ==
    Dispatch("delete", venues, extra, pk, meal_type, menu # <<>>, <<menu>>)

Submit(venues, extra, pk) ==
    Dispatch("confirm", venues, extra, pk, "", FALSE, <<>>)

\* The handler function applied to its declared parameters, the wrapper
\* left aside: payload, a resolved user and what select_restaurant returned.
Apply(act, venues, extra, meal_type, has_menu, menu) ==
    /\ pc = "idle"
    /\ turn < MaxTurns
    /\ req' = Request(act, "call", venues, extra, meal_type, has_menu, menu,
                      FALSE)
    /\ payloadCtx' = held
    /\ pc' = "body"
    /\ reply' = NoReply
    /\ UNCHANGED <<held, users, upstream, posts, turn, codecVars, userVars, composeVars>>

\* A handler body that answers within one step.
Answer(act, body) ==
    /\ pc = "body"
    /\ req.action = act
    /\ reply' = body.reply
    /\ payloadCtx' = body.payload_contexts
    /\ pc' = "replied"
    /\ UNCHANGED <<held, users, upstream, req, posts, turn, codecVars, userVars, composeVars>>

RegisterBody ==
    Answer("register", meal_register(req.meal_type, req.has_menu, req.menu,
                                     payloadCtx, req.restaurant))

DeleteAllBody ==
    Answer("delete_all", meal_delete_all(payloadCtx, req.restaurant))

MenuDeleteBody ==
    Answer("delete",
           meal_menu_delete(req.meal_type,
                            IF req.menu = <<>> THEN <<>> ELSE req.menu[1],
                            payloadCtx, req.restaurant))

\* meal_submit up to asyncio.gather: both post_meal tasks are started.
SubmitBegin ==
    /\ pc = "body"
    /\ req.action = "confirm"
    /\ LET m == meal_submit_extract(payloadCtx, req.restaurant) IN
       IF m.exc = ""
         THEN /\ posts' = [lunch |-> [status |-> "pending", menu |-> m.lunch],
                           dinner |-> [status |-> "pending", menu |-> m.dinner]]
              /\ pc' = "posting"
              /\ reply' = NoReply
         ELSE /\ posts' = NoPosts
              /\ pc' = "replied"
              /\ reply' = http_exception_handler(m.exc)
    /\ UNCHANGED <<held, payloadCtx, users, upstream, req, turn, codecVars, userVars, composeVars>>

\* One of the two posts completes.
PostDone(meal_type, outcome) ==
    /\ pc = "posting"
    /\ posts[meal_type].status = "pending"
    /\ LET r == post_meal(meal_type, posts[meal_type].menu, req.restaurant.id,
                          upstream, outcome)
       IN  /\ upstream' = r.registry
           /\ posts' = [posts EXCEPT ![meal_type].status = r.result]
    /\ UNCHANGED <<held, payloadCtx, users, pc, req, reply, turn, codecVars, userVars, composeVars>>

\* gather returns once both are done; the rest of meal_submit runs.
SubmitCollect(fetch_ok) ==
    /\ pc = "posting"
    /\ posts["lunch"].status # "pending"
    /\ posts["dinner"].status # "pending"
    /\ reply' = meal_submit_reply(
                    <<posts["lunch"].status, posts["dinner"].status>>,
                    payloadCtx, req.restaurant,
                    fetch_latest_meals(upstream, req.restaurant.id, fetch_ok))
    /\ pc' = "replied"
    /\ UNCHANGED <<held, payloadCtx, users, upstream, req, posts, turn,
                   codecVars, userVars, composeVars>>

\* The reply reaches the platform; the next request may arrive.
NextTurn ==
    /\ pc = "replied"
    /\ held' = PlatformApply(held, reply)
    /\ pc' = "idle"
    /\ req' = NoReq
    /\ posts' = NoPosts
    /\ reply' = NoReply
    /\ payloadCtx' = <<>>
    /\ turn' = turn + 1
    /\ UNCHANGED <<users, upstream, codecVars, userVars, composeVars>>

ExtraNames == {"", "R1", "R2"}

\* detail_params of a register request: no menu parameter, or the split list.
RegisterInputs ==
    { [has_menu |-> FALSE, menu_list |-> <<>>],
      [has_menu |-> TRUE, menu_list |-> <<I_b, I_a>>] }

\* client_extra of a delete request: meal_type and menu, either may be missing.
DeleteInputs ==
    { [meal_type |-> "", menu |-> I_a], [meal_type |-> "lunch", menu |-> <<>>] }
    \cup { [meal_type |-> mt, menu |-> m] :
             mt \in {"lunch", "dinner"}, m \in {I_a, I_b} }

InboundKeys == {"", "p1"}

\* The service as routed: every mutating action goes through the wrapper.
Next ==
    \/ \E v \in VenueLists, x \in ExtraNames, pk \in InboundKeys,
          mt \in {"lunch", "dinner"}, d \in RegisterInputs :
          Register(v, x, pk, mt, d.has_menu, d.menu_list)
    \/ \E v \in VenueLists, x \in ExtraNames, pk \in InboundKeys :
          DeleteAll(v, x, pk)
    \/ \E v \in VenueLists, x \in ExtraNames, pk \in InboundKeys,
          d \in DeleteInputs : MenuDelete(v, x, pk, d.meal_type, d.menu)
    \/ \E v \in VenueLists, x \in ExtraNames, pk \in InboundKeys :
          Submit(v, x, pk)
    \/ NextTurn

Spec == FlowInit /\ [][Next]_vars

\* The handler functions on their own: applied to their parameters.
ApplyAny ==
    \/ \E v \in VenueLists, x \in ExtraNames, mt \in {"lunch", "dinner"},
          d \in RegisterInputs :
          Apply("register", v, x, mt, d.has_menu, d.menu_list)
    \/ \E v \in VenueLists, x \in ExtraNames :
          Apply("delete_all", v, x, "", FALSE, <<>>)
    \/ \E v \in VenueLists, x \in ExtraNames, d \in DeleteInputs :
          Apply("delete", v, x, d.meal_type, d.menu # <<>>, <<d.menu>>)
    \/ \E v \in VenueLists, x \in ExtraNames :
          Apply("confirm", v, x, "", FALSE, <<>>)

BodyNext ==
    \/ ApplyAny
    \/ RegisterBody
    \/ DeleteAllBody
    \/ MenuDeleteBody
    \/ SubmitBegin
    \/ \E mt \in {"lunch", "dinner"}, o \in PostOutcomes : PostDone(mt, o)
    \/ \E f \in BOOLEAN : SubmitCollect(f)
    \/ NextTurn

SpecBody == FlowInit /\ [][BodyNext]_vars

(***************************************************************************)
(* Identity resolution: requests resolve their user concurrently, each in  *)
(* its own session.  A request reads the table (the lookup), then commits  *)
(* an insert or an update; other requests run between the two.             *)
(***************************************************************************)
UserStores ==
    { {},
      {MkUser(1, "k1", NULL, NULL)},
      {MkUser(1, "k1", "p1", "a1")},
      {MkUser(1, "k1", NULL, NULL), MkUser(2, "k2", "p1", NULL),
       MkUser(3, "k3", NULL, "a1")} }

KakaoIds == {"k1", "k2"}

PlusfriendKeys == {NULL, "", "p1"}

AppUserIds == {NULL, "a1"}

Resolvers == {"get_and_update_user", "get_or_create_user"}

UsersInit ==
    /\ held = <<>>
    /\ payloadCtx = <<>>
    /\ users \in UserStores
    /\ upstream = EmptyRegistry
    /\ pc = "off"
    /\ req = NoReq
    /\ posts = NoPosts
    /\ reply = NoReply
    /\ turn = 0
    /\ cPhase = "off"
    /\ cContexts = <<>>
    /\ cProbe = NoProbe
    /\ calls = NoCalls
    /\ view = NoView

\* The selects with app_user_id consulted before plusfriend_user_key.
NextSelect_AppFirst(c) ==
    IF c.hits.plusfriend_user_key = -1 /\ c.hits.app_user_id = -1
         /\ c.hits.kakao_id = -1 /\ Truthy(c.app_user_id)
      THEN "app_user_id"
    ELSE IF c.hits.plusfriend_user_key = -1 /\ c.hits.app_user_id <= 0
              /\ c.hits.kakao_id = -1 /\ Truthy(c.plusfriend_user_key)
      THEN "plusfriend_user_key"
    ELSE IF c.hits.plusfriend_user_key <= 0 /\ c.hits.app_user_id <= 0
              /\ c.hits.kakao_id = -1
      THEN "kakao_id"
    ELSE "return"

\* The select that runs next, given what the earlier ones returned: the
\* `if plusfriend_user_key:`, `if not user and app_user_id:` and
\* `if not user:` conditions of search_user and get_or_create_user.
NextSelect(c) ==
    IF c.hits.plusfriend_user_key = -1 /\ c.hits.app_user_id = -1
         /\ c.hits.kakao_id = -1 /\ Truthy(c.plusfriend_user_key)
      THEN "plusfriend_user_key"
    ELSE IF c.hits.plusfriend_user_key <= 0 /\ c.hits.app_user_id = -1
              /\ c.hits.kakao_id = -1 /\ Truthy(c.app_user_id)
      THEN "app_user_id"
    ELSE IF c.hits.plusfriend_user_key <= 0 /\ c.hits.app_user_id <= 0
              /\ c.hits.kakao_id = -1
      THEN "kakao_id"
    ELSE "return"

\* get_and_update_user replaces "" by None in its own arguments before it
\* inserts; a call whose last select found nothing is on that path.
Inbound(c, column) ==
    IF c.fn = "get_and_update_user" /\ c.hits.kakao_id = 0
      THEN EmptyToNone(c[column]) ELSE c[column]

\* update_user_ids on an object that already holds the inbound values
\* returns it without an await: the call is done in the same step.
Settled(c) ==
    IF /\ c.pc = "found"
       /\ c.user.kakao_id = c.kakao_id
       /\ c.user.plusfriend_user_key = Inbound(c, "plusfriend_user_key")
       /\ c.user.app_user_id = Inbound(c, "app_user_id")
      THEN [c EXCEPT !.pc = "done"]
      ELSE c

\* One `await db.execute(select ...)` of call c.  After the last one the
\* lookup returns: get_or_create_user returns a found row as it is,
\* get_and_update_user passes it to update_user_ids.
Selected1(c, store) ==
    LET column == NextSelect(c)
        hit == FindBy(store, column, c[column])
        d == [c EXCEPT !.hits[column] = hit,
                       !.user = IF hit = 0 THEN @ ELSE UserById(store, hit)]
    IN  Settled([d EXCEPT !.pc =
           IF NextSelect(d) # "return" THEN "search"
           ELSE IF hit = 0 THEN "missing"
           ELSE IF c.fn = "get_or_create_user" THEN "done"
           ELSE "found"])

\* A request arrives, calls the resolver and runs up to the end of its
\* first select.  The sessions are interchangeable, so they are numbered in
\* the order they start.
Begin(p, fn, kakao_id, plusfriend_user_key, app_user_id) ==
    /\ calls[p].pc = "idle"
    /\ \A q \in 1..(p - 1) : calls[q].pc # "idle"
    /\ calls' = [calls EXCEPT ![p] =
          Selected1([NoCall EXCEPT
                       !.fn = fn, !.kakao_id = kakao_id,
                       !.plusfriend_user_key = plusfriend_user_key,
                       !.app_user_id = app_user_id], users)]
    /\ UNCHANGED <<flowVars, codecVars, composeVars>>

\* A later select of the lookup.
Select(p) ==
    /\ calls[p].pc = "search"
    /\ calls' = [calls EXCEPT ![p] = Selected1(calls[p], users)]
    /\ UNCHANGED <<flowVars, codecVars, composeVars>>

\* No row was found: db.add(user); await db.commit().
Insert(p) ==
    LET c == calls[p]
        r == insert_user(users, c.kakao_id, Inbound(c, "plusfriend_user_key"),
                         Inbound(c, "app_user_id"))
    IN  /\ c.pc = "missing"
        /\ users' = r.store
        /\ calls' = [calls EXCEPT ![p] =
              [c EXCEPT !.pc = IF r.raised THEN "raised" ELSE "inserted",
                        !.exc = IF r.raised THEN "IntegrityError" ELSE "",
                        !.user = IF r.raised THEN NoUser ELSE r.user]]
        /\ UNCHANGED <<held, payloadCtx, upstream, pc, req, posts, reply, turn,
                       codecVars, composeVars>>

\* update_user_ids on an object that differs from the inbound values: the
\* changed columns are committed.
Update(p) ==
    LET c == calls[p]
        pk == Inbound(c, "plusfriend_user_key")
        au == Inbound(c, "app_user_id")
        r == update_loaded(c.user, users, c.kakao_id, pk, au)
    IN  /\ c.pc = "found"
        /\ users' = r.store
        /\ calls' = [calls EXCEPT
              ![p].pc = IF r.raised THEN "raised" ELSE "updated",
              ![p].exc = IF r.raised THEN "IntegrityError" ELSE "",
              ![p].user = IF r.raised THEN NoUser ELSE @]
        /\ UNCHANGED <<held, payloadCtx, upstream, pc, req, posts, reply, turn,
                       codecVars, composeVars>>

\* await db.refresh(user): the object takes the row's current values.  After
\* the insert get_and_update_user goes on to update_user_ids;
\* get_or_create_user and update_user_ids return the object.
Refresh(p) ==
    LET c == calls[p]
    IN  /\ c.pc \in {"inserted", "updated"}
        /\ calls' = [calls EXCEPT ![p] =
              Settled([c EXCEPT
                 !.user = UserById(users, c.user.id),
                 !.pc = IF c.pc = "inserted" /\ c.fn = "get_and_update_user"
                          THEN "found" ELSE "done"])]
        /\ UNCHANGED <<flowVars, codecVars, composeVars>>

UsersNext ==
    \/ \E p \in Procs, fn \in Resolvers, k \in KakaoIds,
          pk \in PlusfriendKeys, au \in AppUserIds : Begin(p, fn, k, pk, au)
    \/ \E p \in Procs : Select(p)
    \/ \E p \in Procs : Insert(p)
    \/ \E p \in Procs : Update(p)
    \/ \E p \in Procs : Refresh(p)

SpecUsers == UsersInit /\ [][UsersNext]_vars

(***************************************************************************)
(* Reply composition (src/app/utils/statics.py, notice.py, classroom.py,   *)
(* meal.py and the read-only routes).  A component is a record: its kind,  *)
(* for a simple text the message (text, with the header the message is     *)
(* built from), and its cards, each a header and a sequence of items.  A   *)
(* list card or item card outside a carousel is a component with one card. *)
(* Messages are named by tokens: "no_meal" is the text of                  *)
(* src/app/routers/meal.py:166, "no_meal_card" the title of                *)
(* src/app/utils/meal.py:98, "no_notice" src/app/routers/notice.py:105,    *)
(* "not_found" src/app/utils/notice.py:73, "no_classroom"                  *)
(* src/app/utils/classroom.py:104.                                         *)
(***************************************************************************)
MaxItems == 9

MaxMeals == 3

MaxBuildings == 2

\* make_org_group_list: chunk_size inside a carousel, and the largest group
\* shown as one list card.
OrgChunkSize == 4

OrgSingleMax == 5

\* ListCardComponent(header="").max_items: the library's default.
max_items == 5

NoticeChunkSize == 4

CarouselChunkSize == 10

Min(a, b) == IF a <= b THEN a ELSE b

\* seq[i : i + size] for i in range(0, len(seq), size).
Chunks(seq, size) ==
    [k \in 1..((Len(seq) + size - 1) \div size) |->
        SubSeq(seq, (k - 1) * size + 1, Min(k * size, Len(seq)))]

Card(header, items) == [header |-> header, items |-> items]

NoComponent == [kind |-> "none", text |-> "", header |-> "", cards |-> <<>>]

SimpleText(text, header) ==
    [kind |-> "SimpleText", text |-> text, header |-> header, cards |-> <<>>]

Single(kind, card) ==
    [kind |-> kind, text |-> "", header |-> "", cards |-> <<card>>]

Carousel(cards) ==
    [kind |-> "Carousel", text |-> "", header |-> "", cards |-> cards]

Returned(component) == [raised |-> "", component |-> component]

Raised(exc) == [raised |-> exc, component |-> NoComponent]

\* An organization group: its name and its subunits, each a group or a unit.
Units(n) == [1..n -> {"group", "unit"}]

OrgGroup(kinds) ==
    [name |-> "G",
     subunits |-> [i \in 1..Len(kinds) |-> [name |-> i, type |-> kinds[i]]]]

OrgItem(unit) ==
    [title |-> unit.name,
     action |-> IF unit.type = "group" THEN "message" ELSE "block"]

make_org_group_list(group) ==
    LET target_group == group.subunits
        items == [i \in 1..Len(target_group) |-> OrgItem(target_group[i])]
    IN  IF Len(target_group) <= OrgSingleMax
          THEN Returned(Single("ListCard", Card(group.name, items)))
          ELSE Returned(Carousel(
                 [k \in 1..Len(Chunks(items, OrgChunkSize)) |->
                    Card(group.name, Chunks(items, OrgChunkSize)[k])]))

\* n notices of one author, newest first.
Notices(n) == [i \in 1..n |-> [title |-> i, author |-> "A"]]

notice_to_list_item(notice) == [title |-> notice.title, action |-> "link"]

make_notice_component(notice_list, is_author, is_dormitory) ==
    IF is_author /\ notice_list = <<>> THEN Raised("IndexError")
    ELSE
    LET header == IF is_author THEN notice_list[1].author
                  ELSE IF is_dormitory THEN "dormitory" ELSE "notice"
        items == [i \in 1..Len(notice_list) |->
                    notice_to_list_item(notice_list[i])]
    IN  IF notice_list = <<>> THEN Returned(SimpleText("not_found", header))
        ELSE IF Len(notice_list) < max_items
          THEN Returned(Single("ListCard", Card(header, items)))
        ELSE Returned(Carousel(
               [k \in 1..Len(Chunks(items, NoticeChunkSize)) |->
                  Card(header, Chunks(items, NoticeChunkSize)[k])]))

\* A reply: the component list and the quick replies, or the exception.
Reply(out, quick_replies) ==
    [raised |-> "", out |-> out, quick_replies |-> quick_replies]

\* routers/notice.py notice_list.  org is the organization parameter (NULL
\* when absent); regular and dorm are what the notice service returns.
notice_list(org, regular, dorm) ==
    LET notices == IF org = "dormitory" THEN <<>> ELSE regular
        first == make_notice_component(notices,
                                       org # NULL /\ org # "dormitory", FALSE)
        second == make_notice_component(dorm, FALSE, TRUE)
        out == (IF notices # <<>> THEN <<first.component>> ELSE <<>>)
               \o (IF dorm # <<>> THEN <<second.component>> ELSE <<>>)
    IN  IF notices = <<>> /\ dorm = <<>>
          THEN Reply(<<SimpleText("no_notice", "")>>, <<>>)
          ELSE Reply(out, <<>>)

\* Meals as the meal service returns them; updated_at is a time, and
\* standard_time is 19:00 of the day before.
MealTimes == 0..2

standard_time == 1

MealSet ==
    [restaurant_name : RestaurantNames,
     meal_type : {"breakfast", "lunch", "dinner"},
     updated_at : MealTimes]

RECURSIVE SortByTime(_, _)
\* list.sort(key=lambda x: x.updated_at): stable, ascending; t is the
\* smallest time not yet placed.
SortByTime(meals, t) ==
    IF t \notin MealTimes THEN <<>>
    ELSE SelectSeq(meals, LAMBDA m : m.updated_at = t)
           \o SortByTime(meals, t + 1)

make_meal_card(meal) == Card(meal.restaurant_name, <<meal.meal_type>>)

\* make_meal_cards.create_carousel: a carousel without a card gets the
\* placeholder text card.
create_carousel(meals) ==
    LET cards == [i \in 1..Len(meals) |-> make_meal_card(meals[i])]
    IN  IF cards = <<>> THEN Carousel(<<Card("no_meal_card", <<>>)>>)
        ELSE Carousel(cards)

is_empty(carousel) == carousel.cards = <<>>

RECURSIVE QuickReplies(_, _, _)
\* One quick reply per restaurant other than the target, in the order of
\* the meal list; seen are the names already inserted.
QuickReplies(meal_list, target_cafeteria, seen) ==
    IF meal_list = <<>> THEN <<>>
    ELSE LET name == Head(meal_list).restaurant_name
         IN  IF name # target_cafeteria /\ name \notin seen
               THEN <<name>> \o QuickReplies(Tail(meal_list),
                                              target_cafeteria,
                                              seen \cup {name})
               ELSE QuickReplies(Tail(meal_list), target_cafeteria, seen)

\* meal_view with the two tiers joined the other way round.
restaurants_BeforeFirst(meals) ==
    LET bf_standard ==
            SortByTime(SelectSeq(meals,
                         LAMBDA m : m.updated_at < standard_time), 0)
        af_standard ==
            SortByTime(SelectSeq(meals,
                         LAMBDA m : ~(m.updated_at < standard_time)), 0)
    IN  bf_standard \o af_standard

\* meal_view, the split at standard_time: each tier sorted, the meals
\* updated at or after standard_time first.
restaurants(meals) ==
    LET bf_standard ==
            SortByTime(SelectSeq(meals,
                         LAMBDA m : m.updated_at < standard_time), 0)
        af_standard ==
            SortByTime(SelectSeq(meals,
                         LAMBDA m : ~(m.updated_at < standard_time)), 0)
    IN  af_standard \o bf_standard

\* routers/meal.py meal_view; target_cafeteria is "" when absent.
meal_view(meal_list, target_cafeteria) ==
    LET meals == IF target_cafeteria # ""
                   THEN SelectSeq(meal_list,
                          LAMBDA m : m.restaurant_name = target_cafeteria)
                   ELSE meal_list
        lunch == SelectSeq(restaurants(meals),
                           LAMBDA m : m.meal_type = "lunch")
        dinner == SelectSeq(restaurants(meals),
                            LAMBDA m : m.meal_type = "dinner")
        lunch_carousel == create_carousel(lunch)
        dinner_carousel == create_carousel(dinner)
        components ==
            (IF ~is_empty(lunch_carousel) THEN <<lunch_carousel>> ELSE <<>>)
            \o (IF ~is_empty(dinner_carousel) THEN <<dinner_carousel>>
                  ELSE <<>>)
    IN  Reply(IF components = <<>> THEN <<SimpleText("no_meal", "")>>
                ELSE components,
              (IF target_cafeteria # "" THEN <<"all">> ELSE <<>>)
                \o QuickReplies(meal_list, target_cafeteria, {}))

\* Buildings of BuildingName in sorted order: a letter-named one, a
\* Korean-named one, and the one the sort key puts last.
BuildingNames == <<"A", "jonghap", "mirae">>

IsAlphabet(building) == building = "A"

\* A room is the floor parse_floor gives its name (0 for None).
Floors == 0..2

RoomLists == SeqsUpTo(Floors, 2)

RECURSIVE SortByBuilding(_, _)
\* sorted(empty_list, key=lambda x: (x.building == "mirae", x.building)).
SortByBuilding(empty_list, k) ==
    IF k > Len(BuildingNames) THEN <<>>
    ELSE SelectSeq(empty_list, LAMBDA e : e.building = BuildingNames[k])
           \o SortByBuilding(empty_list, k + 1)

RECURSIVE FloorItems(_, _)
\* One item per floor that has rooms, floors ascending: the floor, the
\* first room on it and how many more there are.
FloorItems(rooms, floor) ==
    IF floor \notin Floors THEN <<>>
    ELSE LET idx == {i \in 1..Len(rooms) : rooms[i] = floor}
         IN  (IF floor = 0 \/ idx = {} THEN <<>>
              ELSE <<[title |-> floor,
                      first |-> CHOOSE i \in idx : \A j \in idx : i <= j,
                      others |-> Cardinality(idx) - 1]>>)
             \o FloorItems(rooms, floor + 1)

\* make_empty_classroom_component.  settable tells whether the model
\* object accepts the assignment of empty_classrooms_by_floor, a field
\* EmptyClassroomInfo does not declare; a rejection is a ValueError.
make_empty_classroom_component(empty_classrooms, settable) ==
    IF empty_classrooms.empty_classrooms = <<>> THEN Raised("ValueError")
    ELSE IF ~settable THEN Raised("ValueError")
    ELSE Returned(Single("ItemCard",
           Card(empty_classrooms.building,
                FloorItems(empty_classrooms.empty_classrooms, 0))))

to_carousels(components) ==
    IF components = <<>> THEN <<>>
    ELSE IF Len(components) = 1 THEN <<components[1]>>
    ELSE [k \in 1..Len(Chunks(components, CarouselChunkSize)) |->
            Carousel([i \in 1..Len(Chunks(components, CarouselChunkSize)[k])
                        |-> Chunks(components,
                                   CarouselChunkSize)[k][i].cards[1]])]

make_empty_classroom_components(empty_list, settable) ==
    LET sorted == SortByBuilding(empty_list, 1)
        made == SelectSeq(sorted,
                  LAMBDA e :
                    make_empty_classroom_component(e, settable).raised = "")
        component(e) == make_empty_classroom_component(e, settable).component
        alphabet == SelectSeq(made, LAMBDA e : IsAlphabet(e.building))
        non_alphabet == SelectSeq(made, LAMBDA e : ~IsAlphabet(e.building))
        alphabet_components ==
            [i \in 1..Len(alphabet) |-> component(alphabet[i])]
        non_alphabet_components ==
            [i \in 1..Len(non_alphabet) |-> component(non_alphabet[i])]
    IN  IF empty_list = <<>>
          THEN Reply(<<SimpleText("no_classroom", "")>>, <<>>)
        ELSE IF alphabet_components = <<>> /\ non_alphabet_components = <<>>
          THEN Reply(<<SimpleText("no_classroom", "")>>, <<>>)
        ELSE Reply(to_carousels(alphabet_components)
                     \o to_carousels(non_alphabet_components), <<>>)

\* Classroom search results: buildings, each listed once.
EmptyLists ==
    { l \in SeqsUpTo([building : Range(BuildingNames),
                      empty_classrooms : RoomLists], MaxBuildings) :
        \A i, j \in 1..Len(l) : i # j => l[i].building # l[j].building }

ComposeInit ==
    /\ FlowOff
    /\ cPhase = "off"
    /\ cContexts = <<>>
    /\ cProbe = NoProbe
    /\ calls = NoCalls
    /\ view = NoView

\* A composer called on its own: the reply is its one component.
Composed(fn, items, flag, r) ==
    /\ view.fn = ""
    /\ view' = [NoView EXCEPT !.fn = fn, !.items = items, !.flag = flag,
                              !.raised = r.raised,
                              !.out = IF r.raised = "" THEN <<r.component>>
                                      ELSE <<>>]
    /\ UNCHANGED <<flowVars, codecVars, userVars>>

\* A read-only route answered.
Replied(fn, items, more, flag, r) ==
    /\ view.fn = ""
    /\ view' = [NoView EXCEPT !.fn = fn, !.items = items, !.more = more,
                              !.flag = flag, !.raised = r.raised,
                              !.out = r.out,
                              !.quick_replies = r.quick_replies]
    /\ UNCHANGED <<flowVars, codecVars, userVars>>

OrgGroupList ==
    /\ view.fn = ""
    /\ \E n \in 0..MaxItems : \E kinds \in Units(n) :
           Composed("make_org_group_list", kinds, "",
                    make_org_group_list(OrgGroup(kinds)))

NoticeComponent ==
    /\ view.fn = ""
    /\ \E n \in 0..MaxItems, mode \in {"", "author", "dormitory", "both"} :
           Composed("make_notice_component", Notices(n), mode,
                    make_notice_component(Notices(n),
                                          mode \in {"author", "both"},
                                          mode \in {"dormitory", "both"}))

NoticeList ==
    /\ view.fn = ""
    /\ \E n, m \in 0..MaxItems, org \in {NULL, "dormitory", "A"} :
           Replied("notice_list", IF org = "dormitory" THEN <<>> ELSE Notices(n),
                   Notices(m), org,
                   notice_list(org, Notices(n), Notices(m)))

MealView ==
    /\ view.fn = ""
    /\ \E meal_list \in SeqsUpTo(MealSet, MaxMeals),
          target_cafeteria \in {"", "R1"} :
           Replied("meal_view", meal_list, <<>>, target_cafeteria,
                   meal_view(meal_list, target_cafeteria))

EmptyClassroom ==
    /\ view.fn = ""
    /\ \E empty_list \in EmptyLists, settable \in BOOLEAN :
           Replied("empty_classroom_now", empty_list, <<>>,
                   IF settable THEN "settable" ELSE "",
                   make_empty_classroom_components(empty_list, settable))

\* The venue lists fetch_my_restaurants can return: any venues in any
\* order, a name or an id possibly more than once.
MaxVenues == 3

ManagedLists ==
    SeqsUpTo([name : RestaurantNames, id : RestaurantIds], MaxVenues)

\* payload.flow.last_block.id
BlockIds == {"b1", "b2"}

\* select_restaurant resolved for a request: items are the managed venues,
\* flag the restaurant_name of client_extra ("" when absent), more the
\* originating block, out what the dependency returned.
SelectRestaurant ==
    /\ view.fn = ""
    /\ \E managed \in ManagedLists,
          restaurant_name \in RestaurantNames \cup {"", "R3"},
          block_id \in BlockIds :
           LET r == select_restaurant(restaurant_name, managed, block_id) IN
           Replied("select_restaurant", managed, <<block_id>>, restaurant_name,
                   [raised |-> "", out |-> <<r>>,
                    quick_replies |-> r.quick_replies])

(***************************************************************************)
(* The upstream client of a turn.  A client holds the user_id it was made  *)
(* with, an integer or a string; send puts it, through str(), into the     *)
(* X-User-ID header of every request.                                      *)
(***************************************************************************)
IntId(n) == [type |-> "int", int |-> n, text |-> ""]

TextId(t) == [type |-> "str", int |-> 0, text |-> t]

RECURSIVE str(_)
\* str() of a non-negative integer: its decimal digits.
str(n) ==
    LET digit == <<"0", "1", "2", "3", "4", "5", "6", "7", "8", "9">> IN
    IF n < 10 THEN digit[n + 1] ELSE str(n \div 10) \o digit[(n % 10) + 1]

\* XUserIDClient.send: the headers it adds to a request.
send(user_id) ==
    <<[name |-> "X-User-ID",
       value |-> IF user_id.type = "int" THEN str(user_id.int)
                 ELSE user_id.text]>>

\* db.get_current_user: the LocalUser of the turn.
get_current_user(kakao_id, store, plusfriend_user_key, app_user_id) ==
    get_or_create_user(kakao_id, store, plusfriend_user_key, app_user_id)

\* auth_client.get_xuser_client_by_payload: resolves by kakao_id alone.
get_xuser_client_by_payload(kakao_id, store) ==
    LET r == get_or_create_user(kakao_id, store, NULL, NULL) IN
    [raised |-> r.raised, store |-> r.store, user_id |-> IntId(r.user.id)]

\* http.get_client_by_payload: the client is made with the payload's user id.
get_client_by_payload(kakao_id, store) ==
    [raised |-> FALSE, store |-> store, user_id |-> TextId(kakao_id)]

ClientPaths == {"get_xuser_client_by_payload", "get_client_by_payload"}

\* A turn resolves its dependencies: the client through one of the two
\* paths and the user, in the order the handler declares them; items holds
\* the LocalUser, flag the payload's kakao id, out the headers of the
\* client's requests.
ClientTurn ==
    /\ view.fn = ""
    /\ \E store \in UserStores, kakao_id \in KakaoIds,
          plusfriend_user_key \in PlusfriendKeys, path \in ClientPaths,
          clientFirst \in BOOLEAN :
           LET make(st) ==
                   IF path = "get_xuser_client_by_payload"
                     THEN get_xuser_client_by_payload(kakao_id, st)
                     ELSE get_client_by_payload(kakao_id, st)
               client == IF clientFirst THEN make(store)
                         ELSE make(get_current_user(kakao_id, store,
                                                    plusfriend_user_key,
                                                    NULL).store)
               user == get_current_user(kakao_id,
                                        IF clientFirst THEN client.store
                                        ELSE store,
                                        plusfriend_user_key, NULL)
               raised == client.raised \/ user.raised
           IN  /\ view' = [NoView EXCEPT
                             !.fn = path, !.items = <<user.user>>,
                             !.flag = kakao_id,
                             !.raised = IF raised THEN "IntegrityError" ELSE "",
                             !.out = IF raised THEN <<>>
                                     ELSE send(client.user_id)]
               /\ users' = IF clientFirst THEN user.store ELSE client.store
               /\ UNCHANGED <<held, payloadCtx, upstream, pc, req, posts, reply,
                              turn, codecVars, userVars>>

(***************************************************************************)
(* The top-level exception handler.  An exception has a type, the message  *)
(* str() gives and a traceback; a KakaoError's message is a text or a      *)
(* response it carries (carried, empty when the message is a text).        *)
(* "error_title" is the title of src/app/utils/kakao.py:71 and "apology"   *)
(* the sentence of line 70.                                                *)
(***************************************************************************)
Exceptions ==
    [type : {"RuntimeError", "IndexError"}, message : {"m1", "m2"},
     traceback : {"tb1", "tb2"}, carried : {<<>>}]
    \cup [type : {"KakaoError"}, message : {"m1", "m2"},
          traceback : {"tb1"},
          carried : {<<>>, <<SimpleText("carried", "")>>}]

\* kakao.error_message for an exception: the text card and its description.
error_message(message, debug) ==
    Single("TextCard",
           Card("error_title",
                <<"type", message.type, "message", message.message>>
                  \o (IF debug THEN <<"traceback", message.traceback>>
                        ELSE <<>>)
                  \o <<"apology">>))

\* KakaoError.get_response
get_response(exc) ==
    IF exc.carried # <<>> THEN exc.carried
    ELSE <<SimpleText(exc.message, "")>>

\* main.http_exception_handler in full: the components of the reply and
\* what logger.error wrote.
exception_response(exc, debug) ==
    IF exc.type = "KakaoError"
      THEN [out |-> get_response(exc), log |-> <<>>]
      ELSE [out |-> <<error_message(exc, debug)>>,
            log |-> <<exc.message, exc.traceback>>]

\* An exception escaped a handler; items holds it, more the log lines,
\* flag Config.debug.
ExceptionHandled ==
    /\ view.fn = ""
    /\ \E exc \in Exceptions, debug \in BOOLEAN :
           LET r == exception_response(exc, debug) IN
           Replied("http_exception_handler", <<exc>>, r.log,
                   IF debug THEN "debug" ELSE "",
                   [raised |-> "", out |-> r.out, quick_replies |-> <<>>])

(***************************************************************************)
(* get_notice_by_author: one step per page fetched.  A page is what the    *)
(* notice service answered: how many notices it holds and how many of      *)
(* them are by the author asked for.  view.items is authors_notice_list,   *)
(* view.more the lengths of the pages fetched so far, view.flag "page"     *)
(* while the loop runs and "returned" after the return.                    *)
(***************************************************************************)
MaxPages == 2

size == 20

search_page_size == 50

\* Empty, short and full pages, with none, few, just under size, size,
\* more than size or only matching notices.
Pages ==
    { [len |-> l, matching |-> m] :
        l \in {0, search_page_size - 1, search_page_size},
        m \in {0, 1, size - 1, size, size + 1, search_page_size} }
    \cap [len : 0..search_page_size, matching : 0..search_page_size]

\* The call starts: authors_notice_list = [], page = 1.
AuthorSearch ==
    /\ view.fn = ""
    /\ view' = [NoView EXCEPT !.fn = "get_notice_by_author", !.flag = "page"]
    /\ UNCHANGED <<flowVars, codecVars, userVars>>

\* One pass of the loop: the page is fetched and its matching notices are
\* appended; the call returns after a short page or once the list is no
\* longer below size.
FetchPage ==
    /\ view.fn = "get_notice_by_author"
    /\ view.flag = "page"
    /\ Len(view.more) < MaxPages
    /\ Len(view.items) < size
    /\ \E page \in Pages :
        /\ page.matching <= page.len
        /\ LET authors_notice_list ==
                   Notices(Len(view.items) + page.matching)
           IN  view' = [view EXCEPT
                          !.items = authors_notice_list,
                          !.more = Append(view.more, page.len),
                          !.flag = IF page.len < search_page_size
                                      \/ ~(Len(authors_notice_list) < size)
                                     THEN "returned" ELSE "page"]
        /\ UNCHANGED <<flowVars, codecVars, userVars>>

ComposeNext ==
    \/ AuthorSearch
    \/ FetchPage
    \/ ExceptionHandled
    \/ ClientTurn
    \/ OrgGroupList
    \/ NoticeComponent
    \/ NoticeList
    \/ MealView
    \/ EmptyClassroom
    \/ SelectRestaurant

SpecCompose == ComposeInit /\ [][ComposeNext]_vars

\* Proc p is the only request there has been, and it has returned or raised.
Alone(p) == \A q \in Procs \ {p} : calls[q].pc = "idle"

Finished(p) == calls[p].pc \in {"done", "raised"}

(***************************************************************************)
(* Properties.                                                             *)
(***************************************************************************)
EmptyResult == [raised |-> FALSE, value |-> <<>>]

\* The turn has been answered by the handler body for a selected venue.
BodyAnswered(act) ==
    /\ pc = "replied"
    /\ req.action = act
    /\ req.gate = "call"

PostsAttempted == posts["lunch"].status # "none"

\* No live context of the name in the list.
Cleared(contexts, name) ==
    \A i \in 1..Len(contexts) :
        contexts[i].name = name => contexts[i].lifespan = 0

\* C1: a register turn with new items N for venue R and slot s, where
\* extract_menu for (s, R) yields L on the inbound contexts, returns contexts
\* on which extract_menu for (s, R) yields L followed by N.
C1_RegisterAppends ==
    (/\ BodyAnswered("register")
     /\ req.has_menu
     /\ req.restaurant.kind = "restaurant")
    => LET name == req.meal_type \o "_menu"
           L == extract_menu(payloadCtx, name, req.restaurant.name).value
       IN  /\ reply.hasContexts
           /\ extract_menu(reply.contexts, name, req.restaurant.name)
                = [raised |-> FALSE, value |-> L \o req.menu]

\* C2: after a confirm turn in which the two posts were attempted, whatever
\* their outcomes, the reply carries contexts in which lunch_menu and
\* dinner_menu are both cleared.
C2_ConfirmAlwaysClears ==
    (pc = "replied" /\ req.action = "confirm" /\ PostsAttempted)
    => /\ reply.hasContexts
       /\ Cleared(reply.contexts, "lunch_menu")
       /\ Cleared(reply.contexts, "dinner_menu")

\* C3: a confirm turn for a selected venue issues both posts; in any order
\* of completion, the failure message names exactly the slots whose post
\* raised (each once, lunch before dinner), there is a failure message iff a
\* post raised, and every slot whose post was answered 201 holds the posted
\* menu in the registry.
FailedSlots == {m \in {"lunch", "dinner"} : IsException(posts[m].status)}

C3_PartialFailureNamed ==
    (pc = "replied" /\ req.action = "confirm"
       /\ req.restaurant.kind = "restaurant")
    => /\ PostsAttempted
       /\ {reply.errors[i].slot : i \in 1..Len(reply.errors)} = FailedSlots
       /\ Len(reply.errors) = Cardinality(FailedSlots)
       /\ (reply.kind = "submit_failed") <=> (FailedSlots # {})
       /\ \A m \in {"lunch", "dinner"} :
            posts[m].status = "created"
              => upstream[req.restaurant.id][m]
                   = [present |-> TRUE, menu |-> posts[m].menu]

\* C4: a delete-all turn returns contexts on which extract_menu yields []
\* for both slots of the selected venue, and posts nothing upstream.
C4_DeleteAllClears ==
    (BodyAnswered("delete_all") /\ req.restaurant.kind = "restaurant")
    => /\ reply.hasContexts
       /\ extract_menu(reply.contexts, "lunch_menu", req.restaurant.name)
            = EmptyResult
       /\ extract_menu(reply.contexts, "dinner_menu", req.restaurant.name)
            = EmptyResult
       /\ posts = NoPosts
       /\ upstream = EmptyRegistry

\* C5: a delete turn for an item that is not in the list extracted for the
\* slot and venue answers 'not registered', carries no contexts and leaves
\* the inbound contexts as they were; for an item in the list the reply's
\* contexts hold the list without the item's first occurrence, saved for
\* that venue with the default lifespan.
DeleteCase ==
    /\ pc = "replied"
    /\ req.action = "delete"
    /\ req.meal_type # ""
    /\ req.has_menu
    /\ req.restaurant.kind = "restaurant"

C5_DeleteRequiresPresent ==
    DeleteCase
    => LET name == req.meal_type \o "_menu"
           R == req.restaurant.name
           L == extract_menu(held, name, R).value
           item == req.menu[1]
       IN  /\ payloadCtx = held
           /\ IF item \notin Range(L)
                THEN /\ reply.kind = "not_registered"
                     /\ ~reply.hasContexts
                ELSE /\ reply.kind = "preview"
                     /\ reply.hasContexts
                     /\ extract_menu(reply.contexts, name, R)
                          = [raised |-> FALSE, value |-> RemoveFirst(L, item)]
                     /\ reply.contexts[FirstNamed(reply.contexts, name)].lifespan
                          = DefaultLifespan

\* C6: a turn of a mutating action for a user whose account is not synced
\* is answered with the sync prompt, without a post and without contexts.
C6_UnsyncedShortCircuits ==
    (pc \in {"body", "posting", "replied"} /\ req.unsynced)
    => /\ reply.kind = "sync_prompt"
       /\ req.gate # "call"
       /\ posts = NoPosts
       /\ ~reply.hasContexts

\* C7: when the user manages several venues and the request names none, the
\* turn of every meal-flow action is answered with the venue selection
\* prompt, without a post and without contexts.
C7_SelectionPromptHalts ==
    (/\ pc \in {"posting", "replied"}
     /\ req.gate = "call"
     /\ req.extra = ""
     /\ req.restaurant.kind = "response"
     /\ Len(req.restaurant.quick_replies) > 1)
    => /\ reply.kind = "select_prompt"
       /\ posts = NoPosts
       /\ ~reply.hasContexts

\* C8: extract_menu on the result of save_menu, with the same name and
\* guard, returns exactly the saved items, for any starting context list.
C8_RoundTrip ==
    cProbe.op = "save"
    => cProbe.got = [raised |-> FALSE, value |-> cProbe.items]

\* C9: extract_menu returns [] and does not raise whenever no context has
\* the name, or the first one lacks menu_list or restaurant_name, or its
\* restaurant_name differs from the requested one.
GuardFails(contexts, name, guard) ==
    LET i == FirstNamed(contexts, name) IN
    \/ i = 0
    \/ ~contexts[i].menu_list.present
    \/ ~contexts[i].restaurant_name.present
    \/ contexts[i].restaurant_name.value # guard

C9_GuardFailsClosed ==
    (cProbe.op # "none" /\ GuardFails(cContexts, cProbe.name, cProbe.guard))
    => cProbe.got = EmptyResult

C9_Witness ==
    LET i == FirstNamed(cContexts, cProbe.name) IN
    /\ cProbe.op = "extract"
    /\ i # 0
    /\ cContexts[i].menu_list.present
    /\ cContexts[i].restaurant_name.present
    /\ cContexts[i].restaurant_name.value # cProbe.guard
    /\ json_loads(cContexts[i].menu_list.value).value # <<>>
    /\ cProbe.got = EmptyResult

\* C10: extract_menu returns [] for a context whose lifespan is 0, in
\* particular right after save_menu with lifspan=0, whatever was saved.
C10_LifespanZeroReadsCleared ==
    LET i == FirstNamed(cContexts, cProbe.name) IN
    (cProbe.op # "none" /\ i # 0 /\ cContexts[i].lifespan = 0)
    => cProbe.got.value = <<>>

\* C11: extract_menu returns [] and does not raise when the context that
\* passes the guard holds a menu_list that is not valid JSON.
C11_MalformedJsonReadsEmpty ==
    LET i == FirstNamed(cContexts, cProbe.name) IN
    (/\ cProbe.op = "extract"
     /\ i # 0
     /\ GuardMatches(cContexts[i], cProbe.guard)
     /\ json_loads(cContexts[i].menu_list.value).raised)
    => cProbe.got = EmptyResult

\* C12: a save_menu on a list that holds at most one context per name
\* returns a list that holds at most one context per name: the prior
\* context of the saved name is gone, the replacement is the last element,
\* and the contexts of other names are unchanged and in their order.
UniqueNames(contexts) ==
    \A i, j \in 1..Len(contexts) :
        contexts[i].name = contexts[j].name => i = j

RECURSIVE OtherNames(_, _)
OtherNames(contexts, name) ==
    IF contexts = <<>> THEN <<>>
    ELSE (IF Head(contexts).name # name THEN <<Head(contexts)>> ELSE <<>>)
         \o OtherNames(Tail(contexts), name)

C12_OneContextPerName ==
    (cProbe.op = "save" /\ UniqueNames(cProbe.before))
    => /\ UniqueNames(cContexts)
       /\ OtherNames(cContexts, cProbe.name)
            = OtherNames(cProbe.before, cProbe.name)
       /\ Len(cContexts) > 0
       /\ cContexts[Len(cContexts)]
            = MkContext(cProbe.name, Param(json_dumps(cProbe.items)),
                        Param(cProbe.guard), cProbe.lifespan,
                        IF cProbe.lifespan = 0 THEN 0 ELSE DefaultTtl)

\* C13: a get_and_update_user call on a store that satisfies the unique
\* constraints succeeds, and the same call made again right after it
\* succeeds too, returns the same id, creates no record and changes no
\* stored field.
C13_ResolveIdempotent ==
    \A p \in Procs :
        (Alone(p) /\ Finished(p) /\ calls[p].fn = "get_and_update_user") =>
            /\ calls[p].pc = "done"
            /\ LET again == get_and_update_user(calls[p].kakao_id, users,
                                                calls[p].plusfriend_user_key,
                                                calls[p].app_user_id)
               IN  /\ ~again.raised
                   /\ again.id = calls[p].user.id
                   /\ again.store = users

Sharing(column) ==
    \E u, v \in users :
        u.id # v.id /\ u[column] # NULL /\ u[column] = v[column]

NoRecordDeleted == \A u \in users : \E v \in users' : v.id = u.id

\* A call that found no row by any of its selects.
BrandNew(c) ==
    /\ c.hits.kakao_id = 0
    /\ c.hits.plusfriend_user_key <= 0
    /\ c.hits.app_user_id <= 0

\* Two requests with the same function and identifiers.
Identical(p, q) ==
    /\ calls[p].fn = calls[q].fn
    /\ calls[p].kakao_id = calls[q].kakao_id
    /\ calls[p].plusfriend_user_key = calls[q].plusfriend_user_key
    /\ calls[p].app_user_id = calls[q].app_user_id

\* C14: under every interleaving of concurrent resolve requests no two
\* records share a non-null kakao_id, plusfriend_user_key or app_user_id,
\* and no step removes a record.
C14_UniqueAndNeverDeleted ==
    /\ [](~Sharing("kakao_id") /\ ~Sharing("plusfriend_user_key")
            /\ ~Sharing("app_user_id"))
    /\ [][NoRecordDeleted]_vars

\* Two identical requests for a brand-new user raced: both looked up before
\* either inserted, and both have ended.
C14_Witness ==
    \E p, q \in Procs :
        /\ p # q
        /\ Identical(p, q)
        /\ BrandNew(calls[p]) /\ BrandNew(calls[q])
        /\ Finished(p) /\ Finished(q)

\* C15: when two identical requests for a brand-new user race, neither ends
\* in an error and both return the record with the same local id.
C15_LoserRefetches ==
    \A p, q \in Procs :
        (/\ p # q
         /\ Identical(p, q)
         /\ BrandNew(calls[p]) /\ BrandNew(calls[q])
         /\ Finished(p) /\ Finished(q)) =>
            /\ calls[p].pc = "done"
            /\ calls[q].pc = "done"
            /\ calls[p].user.id = calls[q].user.id

\* The lookup of call c has returned.
LookedUp(c) == c.pc \notin {"idle", "search"}

\* The id the precedence plusfriend_user_key, app_user_id, kakao_id picks
\* in a table (0: no record).
ByPrecedence(store, kakao_id, plusfriend_user_key, app_user_id) ==
    IF Truthy(plusfriend_user_key)
         /\ \E u \in store : u.plusfriend_user_key = plusfriend_user_key
      THEN (CHOOSE u \in store :
              u.plusfriend_user_key = plusfriend_user_key).id
    ELSE IF Truthy(app_user_id) /\ \E u \in store : u.app_user_id = app_user_id
      THEN (CHOOSE u \in store : u.app_user_id = app_user_id).id
    ELSE IF \E u \in store : u.kakao_id = kakao_id
      THEN (CHOOSE u \in store : u.kakao_id = kakao_id).id
    ELSE 0

\* The lookup of the only request has returned and nothing has been written
\* since the request arrived.
LookupOnly(p) ==
    /\ Alone(p)
    /\ \/ calls[p].pc = "missing"
       \/ calls[p].pc = "found" /\ ~BrandNew(calls[p])
       \/ /\ calls[p].pc = "done" /\ ~BrandNew(calls[p])
          /\ calls[p].fn = "get_or_create_user"

\* C16: the lookup of both resolvers consults plusfriend_user_key exactly
\* when it is non-empty, app_user_id exactly when it is non-empty and the
\* first select found nothing, kakao_id exactly when both found nothing;
\* the record it selects is the first one found in that order, whatever
\* the later identifiers match.
C16_LookupPrecedence ==
    \A p \in Procs :
        LET c == calls[p]
        IN  /\ LookedUp(c) =>
                /\ c.hits.plusfriend_user_key # -1
                      <=> Truthy(c.plusfriend_user_key)
                /\ c.hits.app_user_id # -1
                      <=> (Truthy(c.app_user_id)
                             /\ c.hits.plusfriend_user_key <= 0)
                /\ c.hits.kakao_id # -1
                      <=> (c.hits.plusfriend_user_key <= 0
                             /\ c.hits.app_user_id <= 0)
                /\ c.pc = "missing" => BrandNew(c)
                /\ (~BrandNew(c) /\ c.pc # "raised") =>
                      c.user.id =
                        IF c.hits.plusfriend_user_key > 0
                          THEN c.hits.plusfriend_user_key
                        ELSE IF c.hits.app_user_id > 0
                          THEN c.hits.app_user_id
                        ELSE c.hits.kakao_id
            /\ LookupOnly(p) =>
                c.user.id = ByPrecedence(users, c.kakao_id,
                                         c.plusfriend_user_key, c.app_user_id)

\* A lookup selected the record matching plusfriend_user_key while
\* app_user_id and kakao_id match two other records.
C16_Witness ==
    \E p \in Procs :
        /\ LookupOnly(p)
        /\ calls[p].hits.plusfriend_user_key > 0
        /\ calls[p].user.id = calls[p].hits.plusfriend_user_key
        /\ \E u, v \in users :
              /\ u.app_user_id = calls[p].app_user_id
              /\ v.kakao_id = calls[p].kakao_id
              /\ u.id # calls[p].user.id /\ v.id # calls[p].user.id
              /\ u.id # v.id

\* C17: the record a successful get_and_update_user returns holds the
\* inbound kakao_id, plusfriend_user_key and app_user_id, an empty or absent
\* secondary key counting as null.
C17_ReconciledToInbound ==
    \A p \in Procs :
        (calls[p].fn = "get_and_update_user" /\ calls[p].pc = "done") =>
            /\ calls[p].user.kakao_id = calls[p].kakao_id
            /\ calls[p].user.plusfriend_user_key
                  = EmptyToNone(calls[p].plusfriend_user_key)
            /\ calls[p].user.app_user_id = EmptyToNone(calls[p].app_user_id)

\* C18: no record holds an empty string in plusfriend_user_key or
\* app_user_id, and a new user arriving with empty secondary keys is
\* rejected only when its kakao_id is already stored.
C18_NoEmptyStringStored ==
    /\ \A u \in users : u.plusfriend_user_key # "" /\ u.app_user_id # ""
    /\ \A p \in Procs :
          (/\ calls[p].pc = "raised"
           /\ BrandNew(calls[p])
           /\ ~Truthy(calls[p].plusfriend_user_key)
           /\ ~Truthy(calls[p].app_user_id)) =>
              \E u \in users : u.kakao_id = calls[p].kakao_id

RECURSIVE Flatten(_)
\* The items of the cards, one card after the other.
Flatten(cards) ==
    IF cards = <<>> THEN <<>> ELSE Head(cards).items \o Flatten(Tail(cards))

ListComposers == {"make_org_group_list", "make_notice_component"}

\* A list composer applied as the action applies it; mode is the flag of
\* make_notice_component.
ComposeList(fn, items, mode) ==
    IF fn = "make_org_group_list" THEN make_org_group_list(OrgGroup(items))
    ELSE make_notice_component(items, mode \in {"author", "both"},
                               mode \in {"dormitory", "both"})

\* What the composer was given, as the items it is to show.
SourceItems(fn, items) ==
    IF fn = "make_org_group_list"
      THEN [i \in 1..Len(items) |-> OrgItem(OrgGroup(items).subunits[i])]
      ELSE [i \in 1..Len(items) |-> notice_to_list_item(items[i])]

\* A source list of m items for composer fn.
SampleItems(fn, m) ==
    IF fn = "make_org_group_list" THEN [i \in 1..m |-> "unit"]
    ELSE Notices(m)

\* Result r of composer fn on items follows the container rule with cap c.
ComposedWithCap(fn, items, r, c) ==
    LET n == Len(items)
        leaves == (n + c - 1) \div c
    IN  /\ r.raised = ""
        /\ n > 0 =>
              /\ r.component.kind =
                    IF leaves > 1 THEN "Carousel" ELSE "ListCard"
              /\ Len(r.component.cards) = leaves
              /\ \A k \in 1..Len(r.component.cards) :
                    Len(r.component.cards[k].items) <= c
              /\ Flatten(r.component.cards) = SourceItems(fn, items)
        /\ n = 0 =>
              /\ r.component.kind = "SimpleText"
              /\ r.component.text = "not_found"

\* The composition the state holds, as the composer returned it.
ViewResult ==
    [raised |-> view.raised,
     component |-> IF view.out = <<>> THEN NoComponent ELSE view.out[1]]

\* C19: each list-card composer has one cap c with which, for n > 0 items,
\* it puts out ceil(n/c) list cards of at most c items holding the source
\* items in order, in a carousel iff there is more than one card, and for
\* n = 0 exactly one placeholder with the no-data message: the composition
\* made follows the rule with a cap that fits every other item count too.
C19_OneCapPerComposer ==
    view.fn \in ListComposers =>
        \E c \in 1..(MaxItems + 1) :
            /\ ComposedWithCap(view.fn, view.items, ViewResult, c)
            /\ \A m \in 0..MaxItems :
                  ComposedWithCap(view.fn, SampleItems(view.fn, m),
                      ComposeList(view.fn, SampleItems(view.fn, m), view.flag),
                      c)

\* The overall result of a top-level reply is entirely empty: a meal view
\* with no lunch and no dinner meal of the cafeteria asked for, a notice
\* list with no regular and no dormitory notice, a classroom search with
\* no building.
EntirelyEmpty ==
    \/ /\ view.fn = "meal_view"
       /\ \A i \in 1..Len(view.items) :
             \/ view.items[i].meal_type \notin {"lunch", "dinner"}
             \/ view.flag # "" /\ view.items[i].restaurant_name # view.flag
    \/ view.fn = "notice_list" /\ view.items = <<>> /\ view.more = <<>>
    \/ view.fn = "empty_classroom_now" /\ view.items = <<>>

\* C20: an entirely empty top-level reply is exactly one standalone no-data
\* simple text, with no placeholder card and no carousel.
C20_EmptyReplyIsOneSimpleText ==
    EntirelyEmpty =>
        /\ view.raised = ""
        /\ Len(view.out) = 1
        /\ view.out[1].kind = "SimpleText"
        /\ view.out[1].text \in {"no_meal", "no_notice", "no_classroom"}
        /\ view.out[1].cards = <<>>

\* The meals meal_view sorts: those of the cafeteria asked for, or all.
Filtered ==
    IF view.flag # ""
      THEN SelectSeq(view.items, LAMBDA m : m.restaurant_name = view.flag)
      ELSE view.items

\* Every meal updated at or after standard_time stands before every meal
\* updated before it, and each tier ascends by updated_at.
TwoTier(seq) ==
    \A i, j \in 1..Len(seq) :
        i < j =>
            /\ seq[i].updated_at < standard_time
                  => seq[j].updated_at < standard_time
            /\ (seq[i].updated_at < standard_time)
                  = (seq[j].updated_at < standard_time)
                  => seq[i].updated_at <= seq[j].updated_at

\* seq and other hold the same meals, each as often.
SameMeals(seq, other) ==
    /\ Len(seq) = Len(other)
    /\ \A m \in Range(seq) \cup Range(other) :
          Cardinality({i \in 1..Len(seq) : seq[i] = m})
            = Cardinality({i \in 1..Len(other) : other[i] = m})

\* The meal cards of a carousel, the placeholder left out.
MealCards(carousel) ==
    SelectSeq(carousel.cards, LAMBDA c : c.header # "no_meal_card")

\* C21: in a meal view every meal updated at or after the cutoff (19:00 of
\* the previous day) is placed before every meal updated before it, each
\* tier ascends by updated_at, and the lunch cards and the dinner cards each
\* show their own meals in this order.
C21_TwoTierRecencyOrder ==
    view.fn = "meal_view" =>
        LET order == restaurants(Filtered)
            lunch == SelectSeq(order, LAMBDA m : m.meal_type = "lunch")
            dinner == SelectSeq(order, LAMBDA m : m.meal_type = "dinner")
        IN  /\ SameMeals(order, Filtered)
            /\ TwoTier(order)
            /\ TwoTier(lunch)
            /\ TwoTier(dinner)
            /\ view.raised = ""
            /\ Len(view.out) = 2
            /\ MealCards(view.out[1])
                  = [i \in 1..Len(lunch) |-> make_meal_card(lunch[i])]
            /\ MealCards(view.out[2])
                  = [i \in 1..Len(dinner) |-> make_meal_card(dinner[i])]

\* Three lunches came in the order before, after, at the cutoff: the cards
\* show the one at the cutoff, the later one, then the one before it.
C21_Witness ==
    /\ view.fn = "meal_view"
    /\ view.flag = ""
    /\ view.items
         = <<[restaurant_name |-> "R1", meal_type |-> "lunch",
              updated_at |-> standard_time - 1],
             [restaurant_name |-> "R2", meal_type |-> "lunch",
              updated_at |-> standard_time + 1],
             [restaurant_name |-> "R1", meal_type |-> "lunch",
              updated_at |-> standard_time]>>
    /\ [i \in 1..3 |-> view.out[1].cards[i].header] = <<"R1", "R2", "R1">>

\* A confirm turn for a selected venue with nothing pending for it: both
\* slots extract to [] on the inbound contexts.
NothingPending ==
    /\ pc \in {"posting", "replied"}
    /\ req.action = "confirm"
    /\ req.restaurant.kind = "restaurant"
    /\ extract_menu(payloadCtx, "lunch_menu", req.restaurant.name)
         = EmptyResult
    /\ extract_menu(payloadCtx, "dinner_menu", req.restaurant.name)
         = EmptyResult

\* C22: a confirm turn with no pending item for the selected venue (no
\* contexts held, or contexts guarded for another venue) returns at once
\* with a corrective message of its own and posts nothing, so that no
\* empty menu reaches the registry.
C22_ConfirmNothingPostsNothing ==
    NothingPending
    => /\ posts = NoPosts
       /\ upstream = EmptyRegistry
       /\ pc = "replied"
       /\ reply.kind \notin {"submit_ok", "submit_failed", "server_error"}

\* C23: for a user managing k >= 2 venues and a request naming none, the
\* prompt select_restaurant builds carries exactly k quick replies, one per
\* venue in list order, each with the originating block of the request as
\* its block id and the venue's name as its extra restaurant_name.
C23_PromptOneReplyPerVenue ==
    (/\ view.fn = "select_restaurant"
     /\ Len(view.items) >= 2
     /\ view.flag = "")
    => /\ view.raised = ""
       /\ view.out[1].kind = "response"
       /\ Len(view.quick_replies) = Len(view.items)
       /\ \A i \in 1..Len(view.items) :
             /\ view.quick_replies[i].label = view.items[i].name
             /\ view.quick_replies[i].block_id = view.more[1]
             /\ view.quick_replies[i].extra = view.items[i].name

\* Three venues, two of one name, asked from block b2 without a selection:
\* three quick replies targeting b2.
C23_Witness ==
    /\ view.fn = "select_restaurant"
    /\ view.flag = ""
    /\ view.more = <<"b2">>
    /\ view.items = <<[name |-> "R2", id |-> 2], [name |-> "R1", id |-> 1],
                      [name |-> "R2", id |-> 1]>>
    /\ [i \in 1..3 |-> view.quick_replies[i].extra] = <<"R2", "R1", "R2">>
    /\ \A i \in 1..3 : view.quick_replies[i].block_id = "b2"

\* C24: every upstream request of a turn carries X-User-ID set to the
\* internal numeric id of the LocalUser the turn resolved, whichever way
\* the client was made; never the platform's kakao_id, never the id of
\* another user.
C24_HeaderIsLocalUserId ==
    (view.fn \in ClientPaths /\ view.raised = "")
    => view.out = <<[name |-> "X-User-ID", value |-> str(view.items[1].id)]>>

\* What a card shows: its header and its items.
Shown(out) ==
    UNION { {out[i].text}
            \cup UNION { {out[i].cards[j].header}
                         \cup Range(out[i].cards[j].items) :
                         j \in 1..Len(out[i].cards) } :
            i \in 1..Len(out) }

\* C25: an exception other than KakaoError escaping a handler is answered
\* with a generic apology card that does not depend on the exception: any
\* other such exception yields the same card, and the exception's type,
\* message and traceback are in the server log only; a KakaoError is
\* answered with the response it carries.
C25_GenericApologyCard ==
    view.fn = "http_exception_handler" =>
        LET exc == view.items[1] IN
        IF exc.type = "KakaoError"
          THEN view.out = IF exc.carried # <<>> THEN exc.carried
                          ELSE <<SimpleText(exc.message, "")>>
          ELSE /\ \A other \in Exceptions :
                     other.type # "KakaoError" =>
                         exception_response(other, view.flag = "debug").out
                           = view.out
               /\ Shown(view.out)
                     \cap {exc.type, exc.message, exc.traceback} = {}
               /\ {exc.message, exc.traceback} \subseteq Range(view.more)

\* The replies built by the composers that page leaf cards into carousels.
PagingRoutes == {"meal_view", "empty_classroom_now"}

\* C26: no composer output holds a carousel of exactly one leaf card: where
\* a group, or the last chunk of a bucket, comes to a single leaf, the
\* bare leaf is put out (classroom buckets of any size, a meal group with
\* one meal or with the placeholder only).
C26_NoOneCardCarousel ==
    (view.fn \in PagingRoutes /\ view.raised = "")
    => \A i \in 1..Len(view.out) :
          view.out[i].kind = "Carousel" => Len(view.out[i].cards) # 1

\* The buildings of a classroom search that have a room on a floor.
Displayable(empty_list) ==
    { empty_list[i].building :
        i \in { k \in 1..Len(empty_list) :
                  \E r \in 1..Len(empty_list[k].empty_classrooms) :
                      empty_list[k].empty_classrooms[r] # 0 } }

\* The titles of the cards a reply shows.
CardTitles(out) ==
    UNION { { out[i].cards[j].header : j \in 1..Len(out[i].cards) } :
            i \in 1..Len(out) }

\* C27: in a classroom composition a room that maps to no floor and a
\* building without empty rooms are dropped without failing the reply:
\* the buildings that keep a floor item are shown, a building left with
\* none is not, a result left with no building is the no-data message, and
\* no card with an empty item list is put out.
C27_DroppedNotFatal ==
    view.fn = "empty_classroom_now" =>
        /\ view.raised = ""
        /\ \A i \in 1..Len(view.out) :
              \A j \in 1..Len(view.out[i].cards) :
                  view.out[i].cards[j].items # <<>>
        /\ IF Displayable(view.items) = {}
             THEN view.out = <<SimpleText("no_classroom", "")>>
             ELSE CardTitles(view.out) = Displayable(view.items)

\* C28: make_notice_component returns one list card for 1 to 5 notices, a
\* carousel of list cards for more than 5 and the not-found simple text for
\* none, whatever is_author and is_dormitory are.
C28_NoticeComponentShape ==
    view.fn = "make_notice_component" =>
        /\ view.raised = ""
        /\ Len(view.out) = 1
        /\ view.out[1].kind
             = IF Len(view.items) = 0 THEN "SimpleText"
               ELSE IF Len(view.items) <= 5 THEN "ListCard"
               ELSE "Carousel"
        /\ Len(view.items) = 0 => view.out[1].text = "not_found"
        /\ Len(view.items) \in 1..5 =>
              Len(view.out[1].cards[1].items) = Len(view.items)

\* C29: get_notice_by_author returns at most size (20) notices, whatever
\* the number and size of the pages and however the matching notices are
\* spread over them, so that the notice list reply shows at most 20
\* notices of a kind when filtering by author too.
C29_AtMostSizeNotices ==
    (view.fn = "get_notice_by_author" /\ view.flag = "returned")
    => Len(view.items) <= size

\* C30: select_restaurant selects only a venue of the user's managed-venue
\* list: the named venue when the name is in the list, otherwise the sole
\* venue of a one-entry list; a name outside the list never selects that
\* venue, and with no or several venues and no matching name no venue is
\* selected.
C30_SelectsOnlyManaged ==
    view.fn = "select_restaurant" =>
        LET r == view.out[1]
            named == { i \in 1..Len(view.items) :
                         view.items[i].name = view.flag }
        IN  /\ r.kind = "restaurant" =>
                  \E i \in 1..Len(view.items) :
                      view.items[i] = [name |-> r.name, id |-> r.id]
            /\ IF view.flag # "" /\ named # {}
                 THEN /\ r.kind = "restaurant"
                      /\ r.name = view.flag
                      /\ \E i \in named : r.id = view.items[i].id
                 ELSE IF Len(view.items) = 1
                   THEN r = Selected(view.items[1])
                   ELSE r.kind = "response"

\* A user managing R1 and R2 names R2: venue R2 is selected; this is the
\* state after that call.
C30_Witness ==
    /\ view.fn = "select_restaurant"
    /\ view.items = <<[name |-> "R1", id |-> 1], [name |-> "R2", id |-> 2]>>
    /\ view.flag = "R2"
    /\ view.out = <<Selected([name |-> "R2", id |-> 2])>>

====
